---- MODULE Spec2Model ----
(***************************************************************************)
(* Batched bulk-write engine of AppModel (src/models/base.py): batch size  *)
(* derivation, batch slicing, the conflict clause of an upsert and its     *)
(* memoization, and create_many / upsert_many / update_many_with_id /      *)
(* insert_batched / search over a Postgres table with a BigSerial primary  *)
(* key; create_one and upsert_one with their two awaits; the single row    *)
(* operations and delete_all as concurrent requests; the write paths of    *)
(* the earlier revision (src/base/models/base.py); and                     *)
(* DatabaseService.create_db.  The entity is Product (one unique business  *)
(* column, title); the conflict clauses are also examined for entities     *)
(* with other uniqueness declarations.                                     *)
(***************************************************************************)
EXTENDS Integers, Sequences, FiniteSets, Bags, TLC

VARIABLES
    ncols,        \* len(cls._all_column_names())
    override,     \* cls.insert_batch_size_override: <<>> is None, <<n>> is n
    table,        \* stored rows of the entity
    seq,          \* last value handed out by the BigSerial sequence of id
    now,          \* clock read by datetime_now_utc
    op,           \* bulk operation in progress, or "idle"
    dtos,         \* argument of the call in progress / last call
    batch_size,   \* batch_size local of batch_generator
    pending,      \* batches batch_generator has still to yield
    batch_res,    \* per-batch results collected so far
    nstmts,       \* statements issued by the call in progress / last call
    result,       \* outcome of the last call
    table0,       \* stored rows when the call in progress / last call began
    prev,         \* argument and outcome of the call before that one
    ncalls,       \* bulk calls started so far
    ret,          \* value returned by the last call of _batch_size
    schema,       \* columns, unique flags and constraints of the entity (cls._meta)
    stmt,         \* the last INSERT the call built: its rows and ON CONFLICT clause
    inflight,     \* statements issued whose result the call is still awaiting
    cache,        \* the functools.lru_cache of each memoized classmethod
    reqs,         \* the requests being handled concurrently, each at its own step
    db,           \* DatabaseService.create_db: its loop, its log and its outcome
    stores        \* per entity class other than that of schema: its rows and its sequence

vars == <<ncols, override, table, seq, now, op, dtos, batch_size, pending,
          batch_res, nstmts, result, table0, prev, ncalls, ret, schema, stmt,
          inflight, cache, reqs, db, stores>>

----------------------------------------------------------------------------
(* Bounds *)

MaxColumns == 32768     \* column counts 1..MaxColumns
MaxOverride == 3        \* overrides -1..MaxOverride, and None
MaxItems == 4           \* length of the lists batch_generator is applied to
MaxSeeds == 3           \* fixture rows created before the bulk call
MaxDtos == 4            \* length of the argument of create_many
MaxUpserts == 2         \* length of the argument of upsert_many
MaxUpsertCalls == 2     \* upsert_many calls in a behaviour
MaxUpdates == 3         \* length of the argument of update_many_with_id
MaxOffset == 1          \* offsets 0..MaxOffset of a search request
MaxResolutions == 4     \* conflict clauses resolved in a behaviour
MaxEarlierCalls == 3    \* calls of the earlier revision in a behaviour
MaxRetries == 4         \* retry_count 0..MaxRetries of create_db
MaxRequests == 2        \* requests accepted in a behaviour

(* Program constants *)

PSQL_QUERY_ALLOWED_MAX_ARGS == 32767
read_all_limit_default == 100

----------------------------------------------------------------------------
(* Small helpers *)

Min(a, b) == IF a <= b THEN a ELSE b
Max(a, b) == IF a >= b THEN a ELSE b

None == "None"
NoOverride == <<>>
NoResult == [op |-> "none", status |-> "none", ids |-> <<>>, detail |-> <<>>]

----------------------------------------------------------------------------
(* BatchPlanner: max_batch_size, _batch_size, batch_generator *)

\* int(math.floor(PSQL_QUERY_ALLOWED_MAX_ARGS / len(cls._all_column_names())))
max_batch_size(c) == PSQL_QUERY_ALLOWED_MAX_ARGS \div c

\* factor = 0.75; int(math.floor(m * factor)) -- m * 0.75 is exact in binary
\* floating point for every m <= 32767, so the floor is that of 3m/4.
FloorThreeQuarters(m) == (3 * m) \div 4

\* the override taken whenever it is set, without the test that it is positive
_batch_size_AnyOverride(c, ov) ==
    IF ov # NoOverride
    THEN Min(ov[1], max_batch_size(c))
    ELSE FloorThreeQuarters(max_batch_size(c))

_batch_size(c, ov) ==
    IF ov # NoOverride /\ ov[1] > 0
    THEN Min(ov[1], max_batch_size(c))
    ELSE FloorThreeQuarters(max_batch_size(c))

\* batch_size = max(1, cls._batch_size())
UsedBatchSize(c, ov) == Max(1, _batch_size(c, ov))

\* the batches yielded last first
RECURSIVE BatchesFrom_Reversed(_, _, _)
BatchesFrom_Reversed(items, i, b) ==
    IF i >= Len(items) THEN <<>>
    ELSE BatchesFrom_Reversed(items, i + b, b)
         \o <<SubSeq(items, i + 1, Min(i + b, Len(items)))>>

\* only the full batches yielded: a shorter last batch is dropped
RECURSIVE BatchesFrom_FullOnly(_, _, _)
BatchesFrom_FullOnly(items, i, b) ==
    IF i + b > Len(items) THEN <<>>
    ELSE <<SubSeq(items, i + 1, i + b)>> \o BatchesFrom_FullOnly(items, i + b, b)

\* for i in range(0, len(items), batch_size): yield items[i:min(i+batch_size, len(items))]
RECURSIVE BatchesFrom(_, _, _)
BatchesFrom(items, i, b) ==
    IF i >= Len(items) THEN <<>>
    ELSE <<SubSeq(items, i + 1, Min(i + b, Len(items)))>>
         \o BatchesFrom(items, i + b, b)

batch_generator(items, c, ov) == BatchesFrom(items, 0, UsedBatchSize(c, ov))

----------------------------------------------------------------------------
(* Values the DTOs carry *)

Titles == {"A", "B", "C", "D"}
DEFAULT == 0    \* BigSerial: the id is left to the sequence

\* ProductCreate / NoteCreate: title, description, price, is_active
CreateDTOs ==
    [title: Titles, description: {"d1"}, price: {1}, is_active: {TRUE}]
    \cup [title: {"A", "B"}, description: {"d2"}, price: {2}, is_active: {FALSE}]

\* the DTOs submitted to upsert_many: one title twice with different values,
\* and a second title
UpsertDTOs ==
    { [title |-> "A", description |-> "d1", price |-> 1, is_active |-> TRUE],
      [title |-> "A", description |-> "d2", price |-> 2, is_active |-> FALSE],
      [title |-> "B", description |-> "d2", price |-> 1, is_active |-> TRUE] }

\* rows the fixture of a behaviour saves
SeedDTOs ==
    << [title |-> "A", description |-> "d1", price |-> 1, is_active |-> TRUE],
       [title |-> "B", description |-> "d2", price |-> 2, is_active |-> FALSE],
       [title |-> "C", description |-> "d1", price |-> 2, is_active |-> TRUE] >>

Range(f) == {f[k] : k \in DOMAIN f}
Ids(tbl) == {r.id : r \in tbl}

RECURSIVE SeqsUpTo(_, _)
SeqsUpTo(S, n) ==
    IF n = 0 THEN {<<>>}
    ELSE LET shorter == SeqsUpTo(S, n - 1)
         IN shorter \cup {Append(q, x) : q \in shorter, x \in S}

----------------------------------------------------------------------------
(* The store: one INSERT statement, optionally with an ON CONFLICT clause. *)
(* A statement is atomic: it applies all its rows or none.  The sequence   *)
(* is not transactional: values drawn by a failed statement stay drawn.    *)

NoConflictClause == [action |-> "NONE", target |-> None, values |-> {}]
NoStatement == [rows |-> <<>>, clause |-> NoConflictClause]

UniqueViolationError(constraint, key) ==
    [type |-> "UniqueViolationError",
     msg |-> <<"duplicate key value violates unique constraint", constraint, key>>]

CardinalityViolationError ==
    [type |-> "CardinalityViolationError",
     msg |-> <<"ON CONFLICT DO UPDATE command cannot affect row a second time">>]

NoError == [type |-> None, msg |-> <<>>]

\* every column but the id taken from the proposed row
ApplyExcluded_WholeRow(e, p, cols) ==
    [c \in DOMAIN e |-> IF c # "id" THEN p[c] ELSE e[c]]

\* SET col = EXCLUDED.col for the columns of the clause
ApplyExcluded(e, p, cols) ==
    [c \in DOMAIN e |-> IF c \in cols THEN p[c] ELSE e[c]]

\* The unique indexes of the entity's table, in creation order: the primary
\* key, one per column declared unique=True, one per declared constraint
\* the names Postgres gives them: <table>_pkey, <table>_<column>_key
IndexName(sc, c) ==
    IF c = "id" THEN sc.tablename \o "_pkey"
    ELSE sc.tablename \o "_" \o c \o "_key"

UniqueIndexes(sc) ==
    LET flagged == SelectSeq(sc.columns, LAMBDA c : c \in sc.unique)
    IN << [name |-> IndexName(sc, "id"), columns |-> <<"id">>] >>
       \o [k \in 1..Len(flagged) |->
              [name |-> IndexName(sc, flagged[k]), columns |-> <<flagged[k]>>]]
       \o [k \in 1..Len(sc.constraints) |->
              [name |-> sc.constraints[k].name,
               columns |-> sc.constraints[k].unique_columns]]

SameKey(a, b, ix) == \A k \in DOMAIN ix.columns : a[ix.columns[k]] = b[ix.columns[k]]

KeyOf(u, ix) ==
    IF Len(ix.columns) = 1 THEN u[ix.columns[1]]
    ELSE [k \in DOMAIN ix.columns |-> u[ix.columns[k]]]

\* the first of the indexes ixs that row u violates against the rows of
\* tbl, or 0
FirstViolated(ixs, tbl, u) ==
    LET bad == {k \in DOMAIN ixs : \E o \in tbl : SameKey(o, u, ixs[k])}
    IN IF bad = {} THEN 0 ELSE CHOOSE k \in bad : \A j \in bad : k <= j

\* the first unique index that row u violates against the rows of tbl, or 0
ViolatedIndex(sc, tbl, u) == FirstViolated(UniqueIndexes(sc), tbl, u)

\* Rows that arbitrate the conflict of proposed row p under clause oc: those
\* equal to p on the index of the target column or constraint, or on any
\* unique index when the clause names no target
ArbitersAmong(ixs, tbl, p, oc) ==
    LET arb == {k \in DOMAIN ixs : \/ oc.target = None
                                   \/ ixs[k].name = oc.target
                                   \/ ixs[k].columns = <<oc.target>>}
    IN {e \in tbl : \E k \in arb : SameKey(e, p, ixs[k])}

Arbiters(sc, tbl, p, oc) ==
    IF oc.action = "NONE" THEN {}
    ELSE ArbitersAmong(UniqueIndexes(sc), tbl, p, oc)

InsertRow(sc, acc, r, oc) ==
    LET s1 == IF r.id = DEFAULT THEN acc.seq + 1 ELSE acc.seq
        p == [r EXCEPT !.id = IF r.id = DEFAULT THEN s1 ELSE r.id]
        arb == Arbiters(sc, acc.table, p, oc)
        ixs == UniqueIndexes(sc)
    IN IF arb # {}
       THEN IF oc.action = "DO NOTHING"
            THEN [acc EXCEPT !.seq = s1]
            ELSE LET e == CHOOSE x \in arb : TRUE
                     u == ApplyExcluded(e, p, oc.values)
                     rest == acc.table \ {e}
                     v == ViolatedIndex(sc, rest, u)
                 IN IF e.id \in acc.touched
                    THEN [acc EXCEPT !.seq = s1, !.err = CardinalityViolationError]
                    ELSE IF v # 0
                    THEN [acc EXCEPT !.seq = s1,
                                     !.err = UniqueViolationError(ixs[v].name,
                                                                  KeyOf(u, ixs[v]))]
                    ELSE [acc EXCEPT !.seq = s1,
                                     !.table = rest \cup {u},
                                     !.ids = Append(@, u.id),
                                     !.touched = @ \cup {u.id}]
       ELSE LET v == ViolatedIndex(sc, acc.table, p)
            IN IF v # 0
               THEN [acc EXCEPT !.seq = s1,
                                !.err = UniqueViolationError(ixs[v].name,
                                                             KeyOf(p, ixs[v]))]
               ELSE [acc EXCEPT !.seq = s1,
                                !.table = @ \cup {p},
                                !.ids = Append(@, p.id),
                                !.touched = @ \cup {p.id}]

RECURSIVE InsertRows(_, _, _, _, _)
InsertRows(sc, acc, rows, i, oc) ==
    IF i > Len(rows) \/ acc.err # NoError THEN acc
    ELSE InsertRows(sc, InsertRow(sc, acc, rows[i], oc), rows, i + 1, oc)

\* a statement that keeps the rows it wrote before the row that failed
ExecInsert_NotAtomic(sc, tbl, s, rows, oc) ==
    LET acc == InsertRows(sc, [table |-> tbl, seq |-> s, ids |-> <<>>,
                               touched |-> {}, err |-> NoError], rows, 1, oc)
    IN [table |-> acc.table, seq |-> acc.seq,
        ids |-> IF acc.err = NoError THEN acc.ids ELSE <<>>, err |-> acc.err]

\* INSERT INTO t VALUES rows [ON CONFLICT ...] RETURNING id
ExecInsert(sc, tbl, s, rows, oc) ==
    LET acc == InsertRows(sc, [table |-> tbl, seq |-> s, ids |-> <<>>,
                               touched |-> {}, err |-> NoError], rows, 1, oc)
    IN IF acc.err = NoError
       THEN [table |-> acc.table, seq |-> acc.seq, ids |-> acc.ids, err |-> NoError]
       ELSE [table |-> tbl, seq |-> acc.seq, ids |-> <<>>, err |-> acc.err]

\* UPDATE t SET values, updated_at = now WHERE id = i (item.update_self)
ExecUpdate(sc, tbl, i, values, t) ==
    LET hit == {e \in tbl : e.id = i}
    IN IF hit = {} THEN [table |-> tbl, err |-> NoError]
       ELSE LET e == CHOOSE x \in hit : TRUE
                u == [c \in DOMAIN e |->
                         IF c \in DOMAIN values THEN values[c]
                         ELSE IF c = "updated_at" THEN t ELSE e[c]]
                v == ViolatedIndex(sc, tbl \ {e}, u)
                ixs == UniqueIndexes(sc)
            IN IF v # 0
               THEN [table |-> tbl,
                     err |-> UniqueViolationError(ixs[v].name, KeyOf(u, ixs[v]))]
               ELSE [table |-> (tbl \ {e}) \cup {u}, err |-> NoError]

----------------------------------------------------------------------------
(* ColumnSchema of Product (and Note, with body/rating for description/price) *)

\* Product with title declared without unique=True
ProductSchema_TitleNotUnique ==
    [tablename |-> "product",
     columns |-> <<"id", "created_at", "updated_at", "is_active",
                   "title", "description", "price">>,
     unique |-> {},
     constraints |-> <<>>]

ProductSchema ==
    [tablename |-> "product",
     columns |-> <<"id", "created_at", "updated_at", "is_active",
                   "title", "description", "price">>,
     unique |-> {"title"},
     constraints |-> <<>>]

\* Note: title = Varchar(unique=True), body, rating
NoteSchema ==
    [tablename |-> "note",
     columns |-> <<"id", "created_at", "updated_at", "is_active",
                   "title", "body", "rating">>,
     unique |-> {"title"},
     constraints |-> <<>>]

\* UniqueConstraint(['description', 'price']), UniqueConstraint(['title', 'description'])
unique_description_price ==
    [name |-> "unique_description_price", unique_columns |-> <<"description", "price">>]
unique_title_description ==
    [name |-> "unique_title_description", unique_columns |-> <<"title", "description">>]

\* Entities with the columns of Product and other uniqueness declarations
KeylessSchema == [ProductSchema EXCEPT !.unique = {}]
TwoKeySchema == [ProductSchema EXCEPT !.unique = {"title", "description"}]
CompositeSchema ==
    [ProductSchema EXCEPT !.unique = {}, !.constraints = <<unique_description_price>>]
KeyAndCompositeSchema ==
    [ProductSchema EXCEPT !.constraints = <<unique_description_price>>]
TwoKeyCompositeSchema ==
    [ProductSchema EXCEPT !.unique = {"title", "description"},
                          !.constraints = <<unique_description_price>>]
TwoCompositeSchema ==
    [ProductSchema EXCEPT !.unique = {},
                          !.constraints = <<unique_description_price,
                                            unique_title_description>>]

Schemas ==
    {ProductSchema, KeylessSchema, TwoKeySchema, CompositeSchema,
     KeyAndCompositeSchema, TwoKeyCompositeSchema, TwoCompositeSchema}

\* the exclusion list of the earlier revision, which names "deactivated"
_excluded_column_names_Deactivated == {"id", "created_at", "updated_at", "deactivated"}

_excluded_column_names == {"id", "created_at", "updated_at", "is_active"}

_all_column_names(sc) == sc.columns

_unique_columns(sc) ==
    SelectSeq(sc.columns,
              LAMBDA c : c \in sc.unique /\ c \notin _excluded_column_names)

\* only the first of the columns to overwrite
_on_conflict_update_columns_FirstOnly(sc) ==
    SubSeq(SelectSeq(sc.columns,
                     LAMBDA c : c \notin sc.unique /\ c \notin _excluded_column_names),
           1, 1)

_on_conflict_update_columns(sc) ==
    SelectSeq(sc.columns,
              LAMBDA c : c \notin sc.unique /\ c \notin _excluded_column_names)

\* a declared constraint preferred to the single unique column
_add_on_conflict_params_ConstraintFirst(sc) ==
    IF Len(sc.constraints) = 1
    THEN [action |-> "DO UPDATE", target |-> sc.constraints[1].name,
          values |-> Range(_on_conflict_update_columns(sc))]
    ELSE IF Len(_unique_columns(sc)) = 1
    THEN [action |-> "DO UPDATE", target |-> _unique_columns(sc)[1],
          values |-> Range(_on_conflict_update_columns(sc))]
    ELSE [action |-> "DO NOTHING", target |-> None, values |-> {}]

\* the DO NOTHING fallback taken although the entity has one unique column
_add_on_conflict_params_DoNothing(sc) ==
    [action |-> "DO NOTHING", target |-> None, values |-> {}]

_add_on_conflict_params(sc) ==
    IF Len(_unique_columns(sc)) = 1
    THEN [action |-> "DO UPDATE", target |-> _unique_columns(sc)[1],
          values |-> Range(_on_conflict_update_columns(sc))]
    ELSE IF Len(sc.constraints) = 1
    THEN [action |-> "DO UPDATE", target |-> sc.constraints[1].name,
          values |-> Range(_on_conflict_update_columns(sc))]
    ELSE [action |-> "DO NOTHING", target |-> None, values |-> {}]

----------------------------------------------------------------------------
(* Entity instances and results *)

\* cls(**dto.dict()): id DEFAULT, created_at and updated_at from datetime_now_utc
Instance(dto, t) ==
    [id |-> DEFAULT, title |-> dto.title, description |-> dto.description,
     price |-> dto.price, is_active |-> dto.is_active,
     created_at |-> t, updated_at |-> t]

Instances(batch, t) == [k \in 1..Len(batch) |-> Instance(batch[k], t)]

\* the results of the batches joined last batch first
RECURSIVE Flatten_LastFirst(_)
Flatten_LastFirst(bs) ==
    IF bs = <<>> THEN <<>> ELSE Flatten_LastFirst(Tail(bs)) \o Head(bs)

\* [r["id"] for r in [r for batch in batch_res for r in batch]]
RECURSIVE Flatten(_)
Flatten(bs) == IF bs = <<>> THEN <<>> ELSE Head(bs) \o Flatten(Tail(bs))

\* raise ConflictException(str(e)): HTTP 409 with the text of e as detail
ConflictException(o, e) ==
    [op |-> o, status |-> "409", ids |-> <<>>, detail |-> e.msg]
\* an exception that no handler of the model catches
Uncaught(o, e) == [op |-> o, status |-> e.type, ids |-> <<>>, detail |-> e.msg]
\* response[0] of update_self when the UPDATE returned no row
IndexError == [type |-> "IndexError", msg |-> <<"list index out of range">>]
\* refresh() of an instance whose row the SELECT does not find
ValueError ==
    [type |-> "ValueError", msg |-> <<"The object doesn't exist in the database.">>]
\* refresh() of an instance that was never stored (the INSERT returned no row
\* for it): raised before any SELECT is sent
NotStoredError ==
    [type |-> "ValueError", msg |-> <<"This instance doesn't exist in the database.">>]
\* the read DTO of the row saved (ids holds its id), or AppBulkActionResultDTO(ids=ids)
Returned(o, ids) == [op |-> o, status |-> "ok", ids |-> ids, detail |-> <<>>]
\* a call that returns None
ReturnedNone(o) == [op |-> o, status |-> "None", ids |-> <<>>, detail |-> <<>>]

----------------------------------------------------------------------------
(* The memoized classmethods.  @classmethod over @functools.lru_cache(maxsize=1) *)
(* gives each function one cache for all entity classes, keyed by the      *)
(* call's arguments (cls, or cls and the query) and holding one entry.     *)

CachedFunctions ==
    {"_add_on_conflict_params", "_unique_columns", "_on_conflict_update_columns",
     "_excluded_column_names", "_excluded_columns"}

\* held: the key each cache holds (<<>> when empty); runs: how often the body
\* of a function has run for an entity class; queries: Insert objects built
NoCache ==
    [held |-> [f \in CachedFunctions |-> <<>>], runs |-> EmptyBag, queries |-> 0]

\* a call of f with arguments key, ran being the cache once the body of f has
\* run: a hit returns the held result, a miss runs the body and replaces the
\* held entry
lru_cache(c, f, key, ran) ==
    IF c.held[f] = <<key>> THEN c
    ELSE [ran EXCEPT !.held[f] = <<key>>,
                     !.runs = @ (+) SetToBag({<<f, key[1]>>})]

Calls_excluded_columns(c, sc) ==
    lru_cache(c, "_excluded_columns", <<sc>>, c)

\* [c._meta.name for c in cls._excluded_columns()]
Calls_excluded_column_names(c, sc) ==
    lru_cache(c, "_excluded_column_names", <<sc>>, Calls_excluded_columns(c, sc))

\* c._meta.unique and c._meta.name not in cls._excluded_column_names(): the
\* names are asked for once a column is flagged unique
Calls_unique_columns(c, sc) ==
    lru_cache(c, "_unique_columns", <<sc>>,
              IF sc.unique # {} THEN Calls_excluded_column_names(c, sc) ELSE c)

\* not c._meta.unique and c._meta.name not in cls._excluded_column_names()
Calls_on_conflict_update_columns(c, sc) ==
    lru_cache(c, "_on_conflict_update_columns", <<sc>>,
              Calls_excluded_column_names(c, sc))

\* cls._add_on_conflict_params(cls.insert(...)): the key is (cls, query), and
\* the query is an object built for this call
Calls_add_on_conflict_params(c, sc) ==
    LET q == c.queries + 1
        built == [c EXCEPT !.queries = q]
        x1 == Calls_unique_columns(built, sc)
    IN lru_cache(built, "_add_on_conflict_params", <<sc, q>>,
                 IF Len(_unique_columns(sc)) = 1 \/ Len(sc.constraints) = 1
                 THEN Calls_on_conflict_update_columns(x1, sc)
                 ELSE x1)

----------------------------------------------------------------------------
(* Initial states *)

\* what the store answers to a statement: the ids it returns, or its error
NoReply == [ids |-> <<>>, err |-> NoError]

\* the request slots of the server, and a slot that holds no request
Requests == {"r1", "r2"}
NoRequest ==
    [op |-> "none", pc |-> "done", arg |-> <<>>, pending |-> <<>>, got |-> <<>>,
     count |-> 0, t |-> 0, reply |-> NoReply, result |-> NoResult]
NoRequests == [r \in Requests |-> NoRequest]

\* create_db not called
NoCreateDb ==
    [retry_count |-> 0, attempts |-> 0, exists |-> FALSE, log |-> <<>>,
     last_exception |-> <<>>, outcome |-> "none"]

\* the entity classes that requests address, and their tables, empty
EntityTypes == {ProductSchema, NoteSchema, CompositeSchema}
NoStores == [sc \in EntityTypes |-> [table |-> {}, seq |-> 0]]

Overrides == {NoOverride} \cup {<<n>> : n \in -1..MaxOverride}

InitCommon ==
    /\ table = {}
    /\ seq = 0
    /\ now = 0
    /\ op = "idle"
    /\ dtos = <<>>
    /\ batch_size = 0
    /\ pending = <<>>
    /\ batch_res = <<>>
    /\ nstmts = 0
    /\ result = NoResult
    /\ table0 = {}
    /\ prev = [dtos |-> <<>>, result |-> NoResult]
    /\ ncalls = 0
    /\ ret = 0
    /\ stmt = NoStatement
    /\ inflight = 0
    /\ cache = NoCache
    /\ reqs = NoRequests
    /\ stores = NoStores

\* Any entity: every column count, every override
InitBatch ==
    /\ ncols \in 1..MaxColumns
    /\ override \in Overrides
    /\ schema = ProductSchema
    /\ db = NoCreateDb
    /\ InitCommon

\* Product / Note: an empty table, the override left unset or set low enough
\* to split the arguments of the bulk calls into several batches
Init ==
    /\ schema = ProductSchema
    /\ ncols = Len(_all_column_names(schema))
    /\ override \in {NoOverride, <<1>>, <<2>>}
    /\ db = NoCreateDb
    /\ InitCommon

\* Any entity of Schemas
InitAny ==
    /\ schema \in Schemas
    /\ ncols = Len(_all_column_names(schema))
    /\ override \in {NoOverride, <<1>>, <<2>>}
    /\ db = NoCreateDb
    /\ InitCommon

----------------------------------------------------------------------------
(* The planner applied to an entity: _batch_size(), and batch_generator    *)
(* over a list of n items                                                  *)

BatchSize ==
    /\ op = "idle"
    /\ ret' = _batch_size(ncols, override)
    /\ op' = "sized"
    /\ UNCHANGED <<ncols, override, schema, cache, reqs, db, stores, table, seq, now, dtos, batch_size,
                   pending, batch_res, nstmts, result, table0, prev, ncalls,
                   stmt, inflight>>

BatchGenerator(n) ==
    /\ op = "idle"
    /\ dtos' = [k \in 1..n |-> k]
    /\ batch_size' = UsedBatchSize(ncols, override)
    /\ pending' = batch_generator(dtos', ncols, override)
    /\ op' = "sliced"
    /\ UNCHANGED <<ncols, override, schema, cache, reqs, db, stores, table, seq, now, batch_res, nstmts,
                   result, table0, prev, ncalls, ret, stmt, inflight>>

NextBatch ==
    \/ BatchSize
    \/ \E n \in 0..MaxItems : BatchGenerator(n)

SpecBatch == InitBatch /\ [][NextBatch]_vars

----------------------------------------------------------------------------
(* create_one: saves the fixture rows of a behaviour.  The handler awaits    *)
(* twice: the INSERT of save(), then the SELECT of refresh().               *)

\* item = cls(**dto.dict()); await item.save().run(): the item keeps the id the
\* INSERT returned.  except UniqueViolationError as e: raise ConflictException(str(e))
create_one(dto) ==
    /\ op = "idle"
    /\ ncalls = 0
    /\ seq < MaxSeeds
    /\ stmt' = [rows |-> <<Instance(dto, now + 1)>>, clause |-> NoConflictClause]
    /\ LET r == ExecInsert(schema, table, seq, stmt'.rows, stmt'.clause)
       IN /\ table' = r.table
          /\ seq' = r.seq
          /\ IF r.err = NoError
             THEN /\ op' = "create_one"
                  /\ batch_res' = <<r.ids>>
                  /\ result' = NoResult
             ELSE /\ op' = "idle"
                  /\ batch_res' = <<>>
                  /\ result' = ConflictException("create_one", r.err)
    /\ now' = now + 1
    /\ dtos' = <<dto>>
    /\ table0' = table
    /\ prev' = [dtos |-> dtos, result |-> result]
    /\ nstmts' = 1
    /\ UNCHANGED <<ncols, override, schema, cache, reqs, db, stores, batch_size, pending,
                   ncalls, ret, inflight>>

\* await item.refresh(); return cls.ReadDTOClass(**item.to_dict()): the second
\* await of create_one and of upsert_one.  For an item the statement returned
\* no id for (a row skipped by DO NOTHING) refresh raises ValueError without
\* sending anything; otherwise the row of the item's id is read back, and
\* refresh raises ValueError when it is gone.  No handler catches either.
refresh ==
    /\ op \in {"create_one", "upsert_one"}
    /\ IF batch_res[1] = <<>>
       THEN /\ result' = Uncaught(op, NotStoredError)
            /\ nstmts' = nstmts
       ELSE /\ result' = IF batch_res[1][1] \in Ids(table)
                         THEN Returned(op, batch_res[1])
                         ELSE Uncaught(op, ValueError)
            /\ nstmts' = nstmts + 1
    /\ op' = "idle"
    /\ batch_res' = <<>>
    /\ UNCHANGED <<ncols, override, schema, cache, reqs, db, stores, table, seq, now, dtos,
                   batch_size, pending, table0, prev, ncalls, ret, stmt, inflight>>

\* the fixture of the upsert and update behaviours saves its rows in order
SeedInOrder ==
    /\ seq < Len(SeedDTOs)
    /\ create_one(SeedDTOs[seq + 1])

----------------------------------------------------------------------------
(* Entering a bulk operation: the generator is created, nothing is issued *)

Call(o, ds, batches) ==
    /\ op = "idle"
    /\ op' = o
    /\ dtos' = ds
    /\ batch_size' = UsedBatchSize(ncols, override)
    /\ pending' = batches
    /\ batch_res' = <<>>
    /\ nstmts' = 0
    /\ result' = NoResult
    /\ table0' = table
    /\ prev' = [dtos |-> dtos, result |-> result]
    /\ ncalls' = ncalls + 1
    /\ stmt' = NoStatement
    /\ UNCHANGED <<ncols, override, schema, cache, reqs, db, stores, table, seq, now, ret, inflight>>

\* return AppBulkActionResultDTO(ids=[...]) once the generator is exhausted
Return(o) ==
    /\ op = o
    /\ pending = <<>>
    /\ inflight = 0
    /\ result' = Returned(o, Flatten(batch_res))
    /\ op' = "idle"
    /\ UNCHANGED <<ncols, override, schema, cache, reqs, db, stores, table, seq, now, dtos, batch_size,
                   pending, batch_res, nstmts, table0, prev, ncalls, ret, stmt,
                   inflight>>

\* the next statement sent without awaiting the one in flight
Issue_NoAwait(o, rows, clause) ==
    /\ op = o
    /\ stmt' = [rows |-> rows, clause |-> clause]
    /\ inflight' = inflight + 1
    /\ now' = now + 1
    /\ nstmts' = nstmts + 1
    /\ UNCHANGED <<ncols, override, schema, reqs, db, stores, table, seq, op, dtos, batch_size,
                   pending, batch_res, result, table0, prev, ncalls, ret>>

\* q = cls.insert(...)[.on_conflict(...)].run(): the statement of the next batch
\* is built and sent.  The loop is at its head only when no await is pending.
Issue(o, rows, clause) ==
    /\ op = o
    /\ inflight = 0
    /\ stmt' = [rows |-> rows, clause |-> clause]
    /\ inflight' = inflight + 1
    /\ now' = now + 1
    /\ nstmts' = nstmts + 1
    /\ UNCHANGED <<ncols, override, schema, reqs, db, stores, table, seq, op, dtos, batch_size,
                   pending, batch_res, result, table0, prev, ncalls, ret>>

----------------------------------------------------------------------------
(* create_many *)

CallCreateMany(ds) ==
    /\ ncalls = 0
    /\ Call("create_many", ds, batch_generator(ds, ncols, override))

\* q = cls.insert(*[cls(**i.dict()) for i in batch]).run()
CreateManyIssue ==
    /\ op = "create_many"
    /\ pending # <<>>
    /\ Issue("create_many", Instances(Head(pending), now + 1), NoConflictClause)
    /\ UNCHANGED cache

\* the loop going on with the next batch after a uniqueness violation
CreateManyBatch_GoesOn ==
    /\ op = "create_many"
    /\ inflight > 0
    /\ LET r == ExecInsert(schema, table, seq, stmt.rows, stmt.clause)
       IN /\ seq' = r.seq
          /\ table' = r.table
          /\ batch_res' = Append(batch_res, r.ids)
          /\ pending' = Tail(pending)
          /\ UNCHANGED <<op, result>>
    /\ inflight' = inflight - 1
    /\ UNCHANGED <<ncols, override, schema, cache, reqs, db, stores, now, dtos, batch_size, nstmts, table0,
                   prev, ncalls, ret, stmt>>

\* batch_res.append(await q): the store runs the statement and answers;
\* except UniqueViolationError as e: raise ConflictException(str(e))
CreateManyBatch ==
    /\ op = "create_many"
    /\ inflight > 0
    /\ LET r == ExecInsert(schema, table, seq, stmt.rows, stmt.clause)
       IN /\ seq' = r.seq
          /\ table' = r.table
          /\ IF r.err = NoError
             THEN /\ batch_res' = Append(batch_res, r.ids)
                  /\ pending' = Tail(pending)
                  /\ UNCHANGED <<op, result>>
             ELSE /\ result' = ConflictException("create_many", r.err)
                  /\ op' = "idle"
                  /\ UNCHANGED <<batch_res, pending>>
    /\ inflight' = inflight - 1
    /\ UNCHANGED <<ncols, override, schema, cache, reqs, db, stores, now, dtos, batch_size, nstmts, table0,
                   prev, ncalls, ret, stmt>>

CreateManyReturn == Return("create_many")

\* POST /many with any list of up to MaxDtos DTOs
CreateManyCalled ==
    /\ op = "idle"
    /\ ncalls = 0
    /\ \E ds \in SeqsUpTo(CreateDTOs, MaxDtos) : CallCreateMany(ds)

NextCreate ==
    \/ SeedInOrder
    \/ refresh
    \/ CreateManyCalled
    \/ CreateManyIssue
    \/ CreateManyBatch
    \/ CreateManyReturn

SpecCreate == Init /\ [][NextCreate]_vars

----------------------------------------------------------------------------
(* insert_batched: the instances are inserted batch by batch; no result is  *)
(* kept and no error of the store is caught                                *)

\* insert_batched(items), the caller having built items = [cls(**d.dict()) ...]
CallInsertBatched(ds) ==
    /\ ncalls = 0
    /\ Call("insert_batched", ds, batch_generator(Instances(ds, now), ncols, override))

\* for batch in cls.batch_generator(items): cls.insert(*batch).run()
InsertBatchedIssue ==
    /\ op = "insert_batched"
    /\ pending # <<>>
    /\ Issue("insert_batched", Head(pending), NoConflictClause)
    /\ UNCHANGED cache

\* await ...: the store runs the statement; its result is dropped, and its
\* error leaves the call as it is
InsertBatchedBatch ==
    /\ op = "insert_batched"
    /\ inflight > 0
    /\ LET r == ExecInsert(schema, table, seq, stmt.rows, stmt.clause)
       IN /\ seq' = r.seq
          /\ table' = r.table
          /\ IF r.err = NoError
             THEN /\ pending' = Tail(pending)
                  /\ UNCHANGED <<op, result>>
             ELSE /\ result' = Uncaught("insert_batched", r.err)
                  /\ op' = "idle"
                  /\ UNCHANGED pending
    /\ inflight' = inflight - 1
    /\ UNCHANGED <<ncols, override, schema, cache, reqs, db, stores, now, dtos, batch_size,
                   batch_res, nstmts, table0, prev, ncalls, ret, stmt>>

\* the loop is over: the function returns None
InsertBatchedReturn ==
    /\ op = "insert_batched"
    /\ pending = <<>>
    /\ inflight = 0
    /\ result' = ReturnedNone("insert_batched")
    /\ op' = "idle"
    /\ UNCHANGED <<ncols, override, schema, cache, reqs, db, stores, table, seq, now, dtos,
                   batch_size, pending, batch_res, nstmts, table0, prev, ncalls, ret,
                   stmt, inflight>>

----------------------------------------------------------------------------
(* upsert_many *)

CallUpsertMany(ds) ==
    /\ ncalls < MaxUpsertCalls
    /\ Call("upsert_many", ds, batch_generator(ds, ncols, override))

\* q = cls._add_on_conflict_params(cls.insert(*[cls(**i.dict()) for i in batch])).run()
UpsertManyIssue ==
    /\ op = "upsert_many"
    /\ pending # <<>>
    /\ Issue("upsert_many", Instances(Head(pending), now + 1),
             _add_on_conflict_params(schema))
    /\ cache' = Calls_add_on_conflict_params(cache, schema)

\* batch_res.append(await q); except UniqueViolationError as e: raise
\* ConflictException(str(e)).  Any other error of the store propagates.
UpsertManyBatch ==
    /\ op = "upsert_many"
    /\ inflight > 0
    /\ LET r == ExecInsert(schema, table, seq, stmt.rows, stmt.clause)
       IN /\ seq' = r.seq
          /\ table' = r.table
          /\ IF r.err = NoError
             THEN /\ batch_res' = Append(batch_res, r.ids)
                  /\ pending' = Tail(pending)
                  /\ UNCHANGED <<op, result>>
             ELSE /\ result' = IF r.err.type = "UniqueViolationError"
                               THEN ConflictException("upsert_many", r.err)
                               ELSE Uncaught("upsert_many", r.err)
                  /\ op' = "idle"
                  /\ UNCHANGED <<batch_res, pending>>
    /\ inflight' = inflight - 1
    /\ UNCHANGED <<ncols, override, schema, cache, reqs, db, stores, now, dtos, batch_size, nstmts, table0,
                   prev, ncalls, ret, stmt>>

UpsertManyReturn == Return("upsert_many")

\* PUT /many with any list of up to MaxUpserts DTOs
UpsertManyCalled ==
    /\ op = "idle"
    /\ ncalls < MaxUpsertCalls
    /\ \E ds \in SeqsUpTo(UpsertDTOs, MaxUpserts) : CallUpsertMany(ds)

NextUpsert ==
    \/ SeedInOrder
    \/ refresh
    \/ UpsertManyCalled
    \/ UpsertManyIssue
    \/ UpsertManyBatch
    \/ UpsertManyReturn

SpecUpsert == Init /\ [][NextUpsert]_vars

----------------------------------------------------------------------------
(* update_many_with_id *)

\* ProductUpdateWithId: id, and is_active, title, description, price, each
\* None (<<>>) or a value (<<v>>)
UpdateFields == {"is_active", "title", "description", "price"}
Absent == <<>>

UpdateDTO(i, a, t, d, p) ==
    [id |-> i, is_active |-> a, title |-> t, description |-> d, price |-> p]

UpdateDTOs ==
    UNION { { UpdateDTO(i, Absent, Absent, <<"d3">>, Absent),
              UpdateDTO(i, Absent, Absent, Absent, <<3>>),
              UpdateDTO(i, <<FALSE>>, Absent, <<"d4">>, Absent),
              UpdateDTO(i, Absent, <<"O'Brien's Widget">>, Absent, Absent) }
          : i \in DOMAIN SeedDTOs }

\* {k: v for k, v in structs.asdict(self).items() if v is not None}
KeysWithoutUnset(dto) == {"id"} \cup {f \in UpdateFields : dto[f] # Absent}
dict_without_unset(dto) ==
    [k \in KeysWithoutUnset(dto) |-> IF k = "id" THEN dto.id ELSE dto[k][1]]

\* the key tuples of grouped_by_keys, in the order the defaultdict first sees them
RECURSIVE KeyTuples(_, _)
KeyTuples(ds, seen) ==
    IF ds = <<>> THEN seen
    ELSE LET k == KeysWithoutUnset(Head(ds))
         IN KeyTuples(Tail(ds),
                      IF \E j \in DOMAIN seen : seen[j] = k THEN seen
                      ELSE Append(seen, k))

\* every DTO in one list, whatever its keys
group_dicts_by_keys_OneGroup(ds) ==
    IF ds = <<>> THEN <<>>
    ELSE << [i \in 1..Len(ds) |-> dict_without_unset(ds[i])] >>

group_dicts_by_keys(ds) ==
    LET keys == KeyTuples(ds, <<>>)
        same(k) == SelectSeq(ds, LAMBDA d : KeysWithoutUnset(d) = k)
    IN [g \in 1..Len(keys) |->
          [i \in 1..Len(same(keys[g])) |-> dict_without_unset(same(keys[g])[i])]]

\* for group in grouped_items: for batch in cls.batch_generator(group)
RECURSIVE BatchesOfGroups(_, _, _)
BatchesOfGroups(groups, c, ov) ==
    IF groups = <<>> THEN <<>>
    ELSE batch_generator(Head(groups), c, ov) \o BatchesOfGroups(Tail(groups), c, ov)

\* string values written as SQL literals, every apostrophe doubled, and then
\* bound as parameters all the same
ItemInstance_Quoted(item, t) ==
    LET quoted(v) == IF v = "O'Brien's Widget" THEN "O''Brien''s Widget" ELSE v
    IN [id |-> item.id,
        title |-> IF "title" \in DOMAIN item THEN quoted(item.title) ELSE "",
        description |-> IF "description" \in DOMAIN item
                        THEN quoted(item.description) ELSE "",
        price |-> IF "price" \in DOMAIN item THEN item.price ELSE 0,
        is_active |-> IF "is_active" \in DOMAIN item THEN item.is_active ELSE TRUE,
        created_at |-> t, updated_at |-> t]

\* cls(**item): a column the dict does not give takes the column default
\* (Varchar "", Integer 0, is_active True, timestamps datetime_now_utc)
ItemInstance(item, t) ==
    [id |-> item.id,
     title |-> IF "title" \in DOMAIN item THEN item.title ELSE "",
     description |-> IF "description" \in DOMAIN item THEN item.description ELSE "",
     price |-> IF "price" \in DOMAIN item THEN item.price ELSE 0,
     is_active |-> IF "is_active" \in DOMAIN item THEN item.is_active ELSE TRUE,
     created_at |-> t, updated_at |-> t]

\* on_conflict(action=DO_UPDATE, values=cols_to_update + [cls.updated_at], target=cls.id)
UpdateConflictClause(batch) ==
    [action |-> "DO UPDATE", target |-> "id",
     values |-> (DOMAIN batch[1] \ {"id"}) \cup {"updated_at"}]

CallUpdateMany(ds) ==
    /\ ncalls = 0
    /\ Call("update_many_with_id", ds,
            BatchesOfGroups(group_dicts_by_keys(ds), ncols, override))

\* items = [cls(**item) for item in batch]; q = cls.insert(*items).on_conflict(...)
UpdateManyIssue ==
    /\ op = "update_many_with_id"
    /\ pending # <<>>
    /\ LET batch == Head(pending)
       IN Issue("update_many_with_id",
                [k \in 1..Len(batch) |-> ItemInstance(batch[k], now + 1)],
                UpdateConflictClause(batch))
    /\ UNCHANGED cache

\* res = await q.run(); ids.extend(...): no error of the store is caught
UpdateManyBatch ==
    /\ op = "update_many_with_id"
    /\ inflight > 0
    /\ LET r == ExecInsert(schema, table, seq, stmt.rows, stmt.clause)
       IN /\ seq' = r.seq
          /\ table' = r.table
          /\ IF r.err = NoError
             THEN /\ batch_res' = Append(batch_res, r.ids)
                  /\ pending' = Tail(pending)
                  /\ UNCHANGED <<op, result>>
             ELSE /\ result' = Uncaught("update_many_with_id", r.err)
                  /\ op' = "idle"
                  /\ UNCHANGED <<batch_res, pending>>
    /\ inflight' = inflight - 1
    /\ UNCHANGED <<ncols, override, schema, cache, reqs, db, stores, now, dtos, batch_size, nstmts, table0,
                   prev, ncalls, ret, stmt>>

UpdateManyReturn == Return("update_many_with_id")

\* PATCH /many with any list of up to MaxUpdates DTOs
UpdateManyCalled ==
    /\ op = "idle"
    /\ ncalls = 0
    /\ \E ds \in SeqsUpTo(UpdateDTOs, MaxUpdates) : CallUpdateMany(ds)

NextUpdate ==
    \/ SeedInOrder
    \/ refresh
    \/ UpdateManyCalled
    \/ UpdateManyIssue
    \/ UpdateManyBatch
    \/ UpdateManyReturn

SpecUpdate == Init /\ [][NextUpdate]_vars

----------------------------------------------------------------------------
(* search: POST /search with a ProductSearchDTO, a join operator and an    *)
(* offset.  One field of each clause kind is modelled: id_min (>=),        *)
(* price_max (<=), title (Varchar: ilike) and is_active (==).              *)

SearchFields == <<"is_active", "id_min", "title", "price_max">>

SearchDTO(a, i, t, p) == [is_active |-> a, id_min |-> i, title |-> t, price_max |-> p]

SearchDTOs ==
    {SearchDTO(a, i, t, p) : a \in {Absent, <<TRUE>>}, i \in {Absent, <<2>>},
                             t \in {Absent, <<"a">>}, p \in {Absent, <<1>>}}

\* JoinOperator.operator_mapping(): operator.and_ / operator.or_
JoinOperators == {"and", "or"}

\* the keys of dto.dict_without_unset(), in field order
SearchKeys(dto) == SelectSeq(SearchFields, LAMBDA k : dto[k] # Absent)

\* lower case of the one-letter strings the rows and the search values hold
Lower == [c \in {"A", "B", "C", "a"} |-> IF c \in {"A", "a"} THEN "a"
                                        ELSE IF c = "B" THEN "b" ELSE "c"]

\* column ILIKE '%value%' for strings of one letter
ILike(s, v) == Lower[s] = Lower[v]

\* the clause search appends for a key of the dict
SearchClause(dto, key) ==
    IF key = "id_min" THEN [column |-> "id", cmp |-> ">=", value |-> dto[key][1]]
    ELSE IF key = "price_max" THEN [column |-> "price", cmp |-> "<=", value |-> dto[key][1]]
    ELSE IF key = "title" THEN [column |-> "title", cmp |-> "ilike", value |-> dto[key][1]]
    ELSE [column |-> key, cmp |-> "==", value |-> dto[key][1]]

SearchClauses(dto) ==
    [k \in 1..Len(SearchKeys(dto)) |-> SearchClause(dto, SearchKeys(dto)[k])]

ClauseHolds(r, cl) ==
    IF cl.cmp = ">=" THEN r[cl.column] >= cl.value
    ELSE IF cl.cmp = "<=" THEN r[cl.column] <= cl.value
    ELSE IF cl.cmp = "ilike" THEN ILike(r[cl.column], cl.value)
    ELSE r[cl.column] = cl.value

\* functools.reduce(join_operator, clauses) has no initial value
TypeError ==
    [type |-> "TypeError", msg |-> <<"reduce() of empty iterable with no initial value">>]

\* the rows the WHERE of reduce(join_operator, clauses) selects
Where(tbl, clauses, join) ==
    IF join = "and"
    THEN {r \in tbl : \A k \in DOMAIN clauses : ClauseHolds(r, clauses[k])}
    ELSE {r \in tbl : \E k \in DOMAIN clauses : ClauseHolds(r, clauses[k])}

\* the rows come back in the order they were inserted
RECURSIVE Ascending(_)
Ascending(S) ==
    IF S = {} THEN <<>>
    ELSE LET least == CHOOSE x \in S : \A y \in S : x <= y
         IN <<least>> \o Ascending(S \ {least})

\* q.offset(offset).limit(limit)
attach_offset_and_limit(ids, offset, limit) ==
    SubSeq(ids, offset + 1, Min(offset + limit, Len(ids)))

\* Model.search(data, join_operator.operator_mapping(), offset, read_all_limit_default)
search(dto, join, offset) ==
    /\ op = "idle"
    /\ ncalls = 0
    /\ LET clauses == SearchClauses(dto)
       IN IF clauses = <<>>
          THEN /\ result' = Uncaught("search", TypeError)
               /\ nstmts' = 0
          ELSE /\ result' = Returned("search",
                                attach_offset_and_limit(
                                    Ascending(Ids(Where(table, clauses, join))),
                                    offset, read_all_limit_default))
               /\ nstmts' = 1
    /\ dtos' = <<[data |-> dto, join_operator |-> join, offset |-> offset]>>
    /\ table0' = table
    /\ prev' = [dtos |-> dtos, result |-> result]
    /\ ncalls' = ncalls + 1
    /\ UNCHANGED <<ncols, override, schema, cache, reqs, db, stores, table, seq, now, op, batch_size,
                   pending, batch_res, ret, stmt, inflight>>

\* POST /search
SearchCalled ==
    \E dto \in SearchDTOs, join \in JoinOperators, offset \in 0..MaxOffset :
        search(dto, join, offset)

NextSearch ==
    \/ SeedInOrder
    \/ refresh
    \/ SearchCalled

SpecSearch == Init /\ [][NextSearch]_vars

----------------------------------------------------------------------------
(* upsert_one for requests that address different entity classes: the      *)
(* handler resolves the conflict clause (cls._add_on_conflict_params(       *)
(* cls.insert(item))), awaits the INSERT, then awaits refresh().  table and *)
(* seq are those of the class addressed; stores keeps the other classes'.   *)

\* cls(**dto.dict()) for any entity class
InstanceOf(sc, dto, t) ==
    [c \in Range(sc.columns) |->
        IF c = "id" THEN DEFAULT
        ELSE IF c \in {"created_at", "updated_at"} THEN t
        ELSE dto[c]]

\* ProductCreate / NoteCreate DTOs that share a title
ResolveDTOs(sc) ==
    IF sc = NoteSchema
    THEN { [title |-> "A", body |-> "b1", rating |-> 1, is_active |-> TRUE],
           [title |-> "A", body |-> "b2", rating |-> 2, is_active |-> FALSE] }
    ELSE { [title |-> "A", description |-> "d1", price |-> 1, is_active |-> TRUE],
           [title |-> "A", description |-> "d2", price |-> 2, is_active |-> FALSE] }

\* item = cls(**dto.dict());
\* await cls._add_on_conflict_params(cls.insert(item)).run(): the item takes the
\* id the statement returns; no error of the store is caught
upsert_one(sc, dto) ==
    /\ op = "idle"
    /\ cache.queries < MaxResolutions
    /\ schema' = sc
    /\ ncols' = Len(_all_column_names(sc))
    /\ cache' = Calls_add_on_conflict_params(cache, sc)
    /\ stmt' = [rows |-> <<InstanceOf(sc, dto, now + 1)>>,
                clause |-> _add_on_conflict_params(sc)]
    /\ LET kept == IF schema \in EntityTypes
                   THEN [stores EXCEPT ![schema] = [table |-> table, seq |-> seq]]
                   ELSE stores
           mine == IF sc = schema THEN [table |-> table, seq |-> seq] ELSE kept[sc]
           r == ExecInsert(sc, mine.table, mine.seq, stmt'.rows, stmt'.clause)
       IN /\ stores' = kept
          /\ table0' = mine.table
          /\ table' = r.table
          /\ seq' = r.seq
          /\ IF r.err = NoError
             THEN /\ op' = "upsert_one"
                  /\ batch_res' = <<r.ids>>
                  /\ result' = NoResult
             ELSE /\ op' = "idle"
                  /\ batch_res' = <<>>
                  /\ result' = Uncaught("upsert_one", r.err)
    /\ now' = now + 1
    /\ dtos' = <<dto>>
    /\ prev' = [dtos |-> dtos, result |-> result]
    /\ nstmts' = 1
    /\ UNCHANGED <<override, reqs, db, batch_size, pending, ncalls, ret, inflight>>

\* PUT / on any entity class
UpsertOneCalled == \E sc \in EntityTypes : \E dto \in ResolveDTOs(sc) : upsert_one(sc, dto)

NextResolve ==
    \/ UpsertOneCalled
    \/ refresh

SpecResolve == Init /\ [][NextResolve]_vars

----------------------------------------------------------------------------
(* The conflict clauses of upsert_one, upsert_many and                     *)
(* update_many_with_id, for every entity of Schemas: one upsert_one call,  *)
(* one upsert_many call or one update_many_with_id call with a single DTO  *)

\* PUT /many on any entity
UpsertAnyCalled ==
    /\ op = "idle"
    /\ ncalls = 0
    /\ \E ds \in SeqsUpTo(UpsertDTOs, MaxUpserts) : CallUpsertMany(ds)

\* PUT / on any entity
UpsertOneAnyCalled ==
    /\ ncalls = 0
    /\ cache.queries = 0
    /\ \E dto \in UpsertDTOs : upsert_one(schema, dto)

\* PATCH /many on any entity, with one DTO
UpdateAnyCalled ==
    /\ op = "idle"
    /\ ncalls = 0
    /\ \E d \in UpdateDTOs : CallUpdateMany(<<d>>)

NextConflict ==
    \/ SeedInOrder
    \/ refresh
    \/ UpsertOneAnyCalled
    \/ UpsertAnyCalled
    \/ UpsertManyIssue
    \/ UpsertManyBatch
    \/ UpsertManyReturn
    \/ UpdateAnyCalled
    \/ UpdateManyIssue
    \/ UpdateManyBatch
    \/ UpdateManyReturn

SpecConflict == InitAny /\ [][NextConflict]_vars

----------------------------------------------------------------------------
(* The bulk operations side by side on Product: one call of create_many,   *)
(* upsert_many, update_many_with_id or insert_batched with up to           *)
(* MaxUpserts DTOs                                                         *)

\* POST /many
BulkCreateCalled ==
    /\ op = "idle"
    /\ ncalls = 0
    /\ \E ds \in SeqsUpTo(UpsertDTOs, MaxUpserts) : CallCreateMany(ds)

\* Product.insert_batched(items)
BulkInsertCalled ==
    /\ op = "idle"
    /\ ncalls = 0
    /\ \E ds \in SeqsUpTo(UpsertDTOs, MaxUpserts) : CallInsertBatched(ds)

\* PATCH /many
BulkUpdateCalled ==
    /\ op = "idle"
    /\ ncalls = 0
    /\ \E ds \in SeqsUpTo(UpdateDTOs, MaxUpserts) : CallUpdateMany(ds)

NextBulk ==
    \/ SeedInOrder
    \/ refresh
    \/ BulkCreateCalled
    \/ CreateManyIssue
    \/ CreateManyBatch
    \/ CreateManyReturn
    \/ UpsertAnyCalled
    \/ UpsertManyIssue
    \/ UpsertManyBatch
    \/ UpsertManyReturn
    \/ BulkUpdateCalled
    \/ UpdateManyIssue
    \/ UpdateManyBatch
    \/ UpdateManyReturn
    \/ BulkInsertCalled
    \/ InsertBatchedIssue
    \/ InsertBatchedBatch
    \/ InsertBatchedReturn

SpecBulk == Init /\ [][NextBulk]_vars

----------------------------------------------------------------------------
(* The earlier revision of AppModel (src/base/models/base.py): its fourth   *)
(* system column is "deactivated", and its helper takes the names to       *)
(* exclude as a list argument.  A Python list is passed by reference:      *)
(* excluded_names += [...] extends the caller's list in place.             *)

EarlierSystemNames == <<"id", "created_at", "updated_at", "deactivated">>

\* the entity sc declared on the earlier AppModel
Earlier(sc) ==
    [sc EXCEPT !.columns = [k \in DOMAIN sc.columns |->
                               IF sc.columns[k] = "is_active" THEN "deactivated"
                               ELSE sc.columns[k]]]

EarlierSchemas == {Earlier(sc) : sc \in Schemas}

unique_columns(sc) ==
    SelectSeq(sc.columns,
              LAMBDA c : c \in sc.unique /\ c \notin Range(EarlierSystemNames))

\* the list after the call, and the columns returned
on_conflict_update_columns(sc, excluded_names) ==
    LET extended == excluded_names \o EarlierSystemNames
    IN [excluded_names |-> extended,
        columns |-> SelectSeq(sc.columns,
                              LAMBDA c : c \notin sc.unique /\ c \notin Range(extended))]

\* the clause put on the query, and cls._meta after the call
add_on_conflict_params(sc) ==
    IF Len(unique_columns(sc)) = 1
    THEN [clause |-> [action |-> "DO UPDATE", target |-> unique_columns(sc)[1],
                      values |-> Range(on_conflict_update_columns(
                                           sc, <<unique_columns(sc)[1]>>).columns)],
          meta |-> sc]
    ELSE IF Len(sc.constraints) = 1
    THEN LET r == on_conflict_update_columns(sc, sc.constraints[1].unique_columns)
         IN [clause |-> [action |-> "DO UPDATE", target |-> sc.constraints[1].name,
                         values |-> Range(r.columns)],
             meta |-> [sc EXCEPT !.constraints[1].unique_columns = r.excluded_names]]
    ELSE [clause |-> NoConflictClause, meta |-> sc]

InitEarlier ==
    /\ schema \in EarlierSchemas
    /\ ncols = Len(schema.columns)
    /\ override = NoOverride
    /\ db = NoCreateDb
    /\ InitCommon

\* the earlier AppCreateDTO carries deactivated (default False)
EarlierCreateDTOs ==
    [title: {"A", "B"}, description: {"d1"}, price: {1}, deactivated: BOOLEAN]

\* cls(**dto.model_dump())
EarlierInstance(dto, t) ==
    [id |-> DEFAULT, title |-> dto.title, description |-> dto.description,
     price |-> dto.price, deactivated |-> dto.deactivated,
     created_at |-> t, updated_at |-> t]

\* the entity as declared, which its table and unique indexes were created
\* from: the names a call appends to a constraint's list are no columns of
\* the index the database keeps
Declared(sc) ==
    [sc EXCEPT !.constraints =
        [k \in DOMAIN sc.constraints |->
            [name |-> sc.constraints[k].name,
             unique_columns |->
                 SelectSeq(sc.constraints[k].unique_columns,
                           LAMBDA c : c \notin Range(EarlierSystemNames))]]]

\* a DO UPDATE clause that names no column to set: piccolo raises when it
\* builds the statement, and nothing is sent to the store
NoValuesError ==
    [type |-> "ValueError", msg |-> <<"No values specified for on conflict">>]
Unbuildable(clause) == clause.action = "DO UPDATE" /\ clause.values = {}

\* max_batch_size = 10000; int(max_batch_size / len(cls._meta.columns))
EarlierBatchSize(sc) == 10000 \div Len(sc.columns)

\* the first await of create_one (item.save().run()) and of upsert_one
\* (cls.add_on_conflict_params(cls.insert(item)).run()): neither catches an
\* error of the store.  add_on_conflict_params is under lru_cache(maxsize=1)
\* with the query in its key, and the query is an object built for the call:
\* its body runs every time.
EarlierOne(o, dto) ==
    /\ op = "idle"
    /\ ncalls < MaxEarlierCalls
    /\ ncalls' = ncalls + 1
    /\ cache' = [cache EXCEPT !.queries = @ + 1]
    /\ now' = now + 1
    /\ dtos' = <<dto>>
    /\ LET r == IF o = "upsert_one" THEN add_on_conflict_params(schema)
                ELSE [clause |-> NoConflictClause, meta |-> schema]
           x == ExecInsert(Declared(schema), table, seq,
                           <<EarlierInstance(dto, now + 1)>>, r.clause)
       IN /\ schema' = r.meta
          /\ IF Unbuildable(r.clause)
             THEN /\ op' = "idle"
                  /\ batch_res' = <<>>
                  /\ result' = Uncaught(o, NoValuesError)
                  /\ nstmts' = 0
                  /\ UNCHANGED <<table, seq, stmt>>
             ELSE /\ stmt' = [rows |-> <<EarlierInstance(dto, now + 1)>>,
                              clause |-> r.clause]
                  /\ table' = x.table
                  /\ seq' = x.seq
                  /\ nstmts' = 1
                  /\ IF x.err = NoError
                     THEN /\ op' = o
                          /\ batch_res' = <<x.ids>>
                          /\ result' = NoResult
                     ELSE /\ op' = "idle"
                          /\ batch_res' = <<>>
                          /\ result' = Uncaught(o, x.err)
    /\ table0' = table
    /\ prev' = [dtos |-> dtos, result |-> result]
    /\ UNCHANGED <<ncols, override, reqs, db, stores, batch_size, pending, ret,
                   inflight>>

\* create_many / upsert_many entered: batch_size = cls.batch_size();
\* for i in range(0, len(dtos), batch_size): batch_items = dtos[i:i+batch_size]
EarlierMany(o, ds) ==
    /\ op = "idle"
    /\ ncalls < MaxEarlierCalls
    /\ op' = o
    /\ dtos' = ds
    /\ batch_size' = EarlierBatchSize(schema)
    /\ pending' = BatchesFrom(ds, 0, EarlierBatchSize(schema))
    /\ batch_res' = <<>>
    /\ nstmts' = 0
    /\ result' = NoResult
    /\ table0' = table
    /\ prev' = [dtos |-> dtos, result |-> result]
    /\ ncalls' = ncalls + 1
    /\ UNCHANGED <<ncols, override, schema, cache, reqs, db, stores, table, seq, now, ret,
                   stmt, inflight>>

\* q = cls.insert(*[cls(**i.model_dump()) for i in batch_items]).run(), under
\* cls.add_on_conflict_params(...) in upsert_many; a clause that cannot be
\* built ends the call with the ValueError
EarlierManyIssue ==
    /\ op \in {"create_many", "upsert_many"}
    /\ pending # <<>>
    /\ inflight = 0
    /\ LET r == IF op = "upsert_many" THEN add_on_conflict_params(schema)
                ELSE [clause |-> NoConflictClause, meta |-> schema]
       IN /\ schema' = r.meta
          /\ IF Unbuildable(r.clause)
             THEN /\ op' = "idle"
                  /\ result' = Uncaught(op, NoValuesError)
                  /\ UNCHANGED <<stmt, inflight, nstmts>>
             ELSE /\ stmt' = [rows |-> [k \in 1..Len(Head(pending)) |->
                                          EarlierInstance(Head(pending)[k], now + 1)],
                              clause |-> r.clause]
                  /\ inflight' = inflight + 1
                  /\ nstmts' = nstmts + 1
                  /\ UNCHANGED <<op, result>>
    /\ cache' = [cache EXCEPT !.queries = @ + 1]
    /\ now' = now + 1
    /\ UNCHANGED <<ncols, override, reqs, db, stores, table, seq, dtos, batch_size,
                   pending, batch_res, table0, prev, ncalls, ret>>

\* batch_res.append(await q): no error of the store is caught
EarlierManyBatch ==
    /\ op \in {"create_many", "upsert_many"}
    /\ inflight > 0
    /\ LET r == ExecInsert(Declared(schema), table, seq, stmt.rows, stmt.clause)
       IN /\ seq' = r.seq
          /\ table' = r.table
          /\ IF r.err = NoError
             THEN /\ batch_res' = Append(batch_res, r.ids)
                  /\ pending' = Tail(pending)
                  /\ UNCHANGED <<op, result>>
             ELSE /\ result' = Uncaught(op, r.err)
                  /\ op' = "idle"
                  /\ UNCHANGED <<batch_res, pending>>
    /\ inflight' = inflight - 1
    /\ UNCHANGED <<ncols, override, schema, cache, reqs, db, stores, now, dtos, batch_size,
                   nstmts, table0, prev, ncalls, ret, stmt>>

\* NotFoundException.from_id(id) of the earlier revision
EarlierNotFoundException(o, i) ==
    [op |-> o, status |-> "NotFoundException", ids |-> <<>>,
     detail |-> <<"Item with id='" \o ToString(i) \o "' not found.">>]

\* AppDeleteAllResponseDTO(count=count)
Deleted(count) ==
    [op |-> "delete_all", status |-> "ok", ids |-> <<>>, detail |-> <<count>>]

\* update_one: item = await cls.objects().where(cls.id == id).first().run();
\* if item is None: raise NotFoundException.from_id(id).  Otherwise the UPDATE
\* of item.update_self(dto.model_dump(exclude_unset=True)) is built, the clock
\* read for updated_at (auto_update=datetime.now).
EarlierUpdateOneSelect(i, values) ==
    /\ op = "idle"
    /\ ncalls < MaxEarlierCalls
    /\ ncalls' = ncalls + 1
    /\ dtos' = <<[id |-> i, values |-> values]>>
    /\ IF i \in Ids(table)
       THEN /\ op' = "update_one"
            /\ batch_res' = << <<i>> >>
            /\ result' = NoResult
            /\ now' = now + 1
       ELSE /\ op' = "idle"
            /\ batch_res' = <<>>
            /\ result' = EarlierNotFoundException("update_one", i)
            /\ now' = now
    /\ table0' = table
    /\ prev' = [dtos |-> dtos, result |-> result]
    /\ nstmts' = 1
    /\ UNCHANGED <<ncols, override, schema, cache, reqs, db, stores, table, seq,
                   batch_size, pending, ret, stmt, inflight>>

\* await item.update_self(...).run();
\* return cls.ReadDTOClass.model_construct(**item.to_dict())
EarlierUpdateOneUpdate ==
    /\ op = "update_one"
    /\ LET x == ExecUpdate(Declared(schema), table, batch_res[1][1],
                           dtos[1].values, now)
       IN /\ table' = x.table
          /\ result' = IF x.err = NoError THEN Returned("update_one", batch_res[1])
                       ELSE Uncaught("update_one", x.err)
    /\ op' = "idle"
    /\ batch_res' = <<>>
    /\ nstmts' = nstmts + 1
    /\ UNCHANGED <<ncols, override, schema, cache, reqs, db, stores, seq, now, dtos,
                   batch_size, pending, table0, prev, ncalls, ret, stmt, inflight>>

\* delete_one: await cls.delete().where(cls.id == id).run(); returns None
EarlierDeleteOne(i) ==
    /\ op = "idle"
    /\ ncalls < MaxEarlierCalls
    /\ ncalls' = ncalls + 1
    /\ table' = {e \in table : e.id # i}
    /\ dtos' = <<i>>
    /\ result' = ReturnedNone("delete_one")
    /\ table0' = table
    /\ prev' = [dtos |-> dtos, result |-> result]
    /\ nstmts' = 1
    /\ UNCHANGED <<ncols, override, schema, cache, reqs, db, stores, seq, now, op,
                   batch_size, pending, batch_res, ret, stmt, inflight>>

\* delete_all: count = await cls.count().run()
EarlierDeleteAllCount ==
    /\ op = "idle"
    /\ ncalls < MaxEarlierCalls
    /\ ncalls' = ncalls + 1
    /\ op' = "delete_all"
    /\ batch_res' = << <<Cardinality(table)>> >>
    /\ dtos' = <<>>
    /\ result' = NoResult
    /\ table0' = table
    /\ prev' = [dtos |-> dtos, result |-> result]
    /\ nstmts' = 1
    /\ UNCHANGED <<ncols, override, schema, cache, reqs, db, stores, table, seq, now,
                   batch_size, pending, ret, stmt, inflight>>

\* res = await cls.delete(force=True).run();
\* return AppDeleteAllResponseDTO.model_construct(count=count)
EarlierDeleteAllDelete ==
    /\ op = "delete_all"
    /\ table' = {}
    /\ result' = Deleted(batch_res[1][1])
    /\ op' = "idle"
    /\ batch_res' = <<>>
    /\ nstmts' = nstmts + 1
    /\ UNCHANGED <<ncols, override, schema, cache, reqs, db, stores, seq, now, dtos,
                   batch_size, pending, table0, prev, ncalls, ret, stmt, inflight>>

\* the fields an update_one of the earlier revision sets
EarlierUpdates == { [price |-> 5], [deactivated |-> TRUE] }

\* what a bulk call of the earlier revision is given
EarlierLists ==
    {ds \in SeqsUpTo(EarlierCreateDTOs, MaxUpserts) :
        \A k \in DOMAIN ds : ds[k].deactivated = FALSE}

NextEarlier ==
    \/ \E dto \in EarlierCreateDTOs : EarlierOne("upsert_one", dto)
    \/ \E dto \in EarlierCreateDTOs : EarlierOne("create_one", dto)
    \/ refresh
    \/ \E ds \in EarlierLists : EarlierMany("upsert_many", ds)
    \/ \E ds \in EarlierLists : EarlierMany("create_many", ds)
    \/ EarlierManyIssue
    \/ EarlierManyBatch
    \/ CreateManyReturn
    \/ UpsertManyReturn
    \/ \E i \in 1..2 : \E values \in EarlierUpdates : EarlierUpdateOneSelect(i, values)
    \/ EarlierUpdateOneUpdate
    \/ \E i \in 1..2 : EarlierDeleteOne(i)
    \/ EarlierDeleteAllCount
    \/ EarlierDeleteAllDelete

SpecEarlier == InitEarlier /\ [][NextEarlier]_vars

----------------------------------------------------------------------------
(* DatabaseService.create_db: up to retry_count attempts to find or create *)
(* the database.  The server may refuse any call (database_exists or       *)
(* create_database raises); last_exception is a local the except clause    *)
(* binds, <<>> while unbound.                                              *)

InitCreateDb ==
    /\ schema = ProductSchema
    /\ ncols = Len(_all_column_names(schema))
    /\ override = NoOverride
    /\ db \in {[NoCreateDb EXCEPT !.exists = e] : e \in BOOLEAN}
    /\ InitCommon

CreateDbStep(d) ==
    /\ db' = d
    /\ UNCHANGED <<ncols, override, schema, cache, reqs, stores, table, seq, now, op, dtos,
                   batch_size, pending, batch_res, nstmts, result, table0, prev,
                   ncalls, ret, stmt, inflight>>

\* create_db(bind, retry_count, retry_delay)
CreateDbCalled(n) ==
    /\ db.outcome = "none"
    /\ CreateDbStep([db EXCEPT !.retry_count = n, !.outcome = "running"])

\* if database_exists(bind.url_sync): logger.info("Database found."); return
CreateDbFound ==
    /\ db.outcome = "running"
    /\ db.attempts < db.retry_count
    /\ db.exists
    /\ CreateDbStep([db EXCEPT !.attempts = @ + 1,
                               !.log = Append(@, "Database found."),
                               !.outcome = "returned"])

\* logger.warning("Creating database..."); create_database(bind.url_sync); return
CreateDbCreated ==
    /\ db.outcome = "running"
    /\ db.attempts < db.retry_count
    /\ ~db.exists
    /\ CreateDbStep([db EXCEPT !.attempts = @ + 1,
                               !.log = Append(@, "Creating database..."),
                               !.exists = TRUE,
                               !.outcome = "returned"])

\* except Exception as e: logger.error(...); last_exception = e; time.sleep(retry_delay)
CreateDbRaises(call) ==
    /\ db.outcome = "running"
    /\ db.attempts < db.retry_count
    /\ call = "create_database" => ~db.exists
    /\ CreateDbStep([db EXCEPT
           !.attempts = @ + 1,
           !.log = IF call = "create_database"
                   THEN @ \o <<"Creating database...", "Error creating database: create_database">>
                   ELSE Append(@, "Error creating database: database_exists"),
           !.last_exception = <<call>>])

\* the loop is over: logger.critical(...);
\* raise DatabaseNotFoundException(bind.name) from last_exception
CreateDbExhausted ==
    /\ db.outcome = "running"
    /\ db.attempts = db.retry_count
    /\ CreateDbStep([db EXCEPT
           !.log = Append(@, "Failed to create database after "
                                 \o ToString(db.retry_count) \o " retries."),
           !.outcome = IF db.last_exception = <<>> THEN "UnboundLocalError"
                       ELSE "DatabaseNotFoundException"])

NextCreateDb ==
    \/ \E n \in 0..MaxRetries : CreateDbCalled(n)
    \/ CreateDbFound
    \/ CreateDbCreated
    \/ \E call \in {"database_exists", "create_database"} : CreateDbRaises(call)
    \/ CreateDbExhausted

SpecCreateDb == InitCreateDb /\ [][NextCreateDb]_vars

----------------------------------------------------------------------------
(* Concurrent requests.  Each request runs its handler as a coroutine: it   *)
(* runs without interruption up to an await, where the statement it has    *)
(* built (instances stamped by the clock, conflict clause resolved) waits   *)
(* for the store, which executes statements one at a time.  Nothing wraps  *)
(* the statements of a handler in a transaction.  The handler resumes some *)
(* time after its statement was executed, and other requests may run in    *)
(* between.  Where the resumed handler reads the clock or the memo caches  *)
(* (update_one after its SELECT, the loop of a bulk call after a batch)    *)
(* the execution and the resumption are two steps.  Elsewhere the resumed  *)
(* handler touches only its own request (it builds a statement without     *)
(* instances, or returns), which commutes with every step of the other     *)
(* requests, and is taken together with the execution.                     *)

\* inflection.humanize(cls.__name__): underscores to spaces, every letter
\* lower-cased, then the first one capitalised
humanize ==
    [Product |-> "Product", Note |-> "Note", ProductCategory |-> "Productcategory"]

ClassName(sc) == IF sc = NoteSchema THEN "Note" ELSE "Product"
humanise(sc) == humanize[ClassName(sc)]

\* NotFoundException.from_id(id, cls): HTTP 404
NotFoundException(o, i, sc) ==
    [op |-> o, status |-> "404", ids |-> <<>>,
     detail |-> <<humanise(sc) \o " with id='" \o ToString(i) \o "' not found.">>]

\* what the requests of a behaviour submit
RequestDTOs ==
    { [title |-> "A", description |-> "d2", price |-> 2, is_active |-> FALSE],
      [title |-> "D", description |-> "d1", price |-> 1, is_active |-> TRUE] }

RequestLists == {ds \in [1..2 -> RequestDTOs] : ds[1] # ds[2]}

RequestUpdates ==
    { UpdateDTO(1, Absent, Absent, <<"d3">>, Absent),
      UpdateDTO(2, Absent, <<"A">>, Absent, Absent) }

RequestUpdateLists == {ds \in [1..2 -> RequestUpdates] : ds[1] # ds[2]}

Running(q) == q.pc # "done"

\* the slot a new request takes: the first one not running
FreeSlot ==
    IF ~Running(reqs["r1"]) THEN "r1" ELSE "r2"

\* operations whose handler builds instances (cls(**dto.dict()) reads the
\* clock for created_at and updated_at) before its first await
Stamping ==
    {"create_one", "upsert_one", "create_many", "upsert_many", "update_many_with_id"}

\* a request is accepted and its handler runs up to its first await: the
\* first statement is built, and for an upsert its conflict clause resolved
Accept(o, arg, batches) ==
    /\ op = "idle"
    /\ ncalls < MaxRequests
    /\ \E r \in Requests : ~Running(reqs[r])
    /\ now' = IF o \in Stamping THEN now + 1 ELSE now
    /\ reqs' = [reqs EXCEPT ![FreeSlot] =
                   [op |-> o, pc |-> "first", arg |-> arg, pending |-> batches,
                    got |-> <<>>, count |-> 0, t |-> now', reply |-> NoReply,
                    result |-> NoResult]]
    /\ cache' = IF o \in {"upsert_one", "upsert_many"}
                THEN Calls_add_on_conflict_params(cache, schema)
                ELSE cache
    /\ ncalls' = ncalls + 1
    /\ UNCHANGED <<ncols, override, schema, db, stores, table, seq, op, dtos,
                   batch_size, pending, batch_res, nstmts, result, table0, prev,
                   ret, stmt, inflight>>

Accepted ==
    \/ \E dto \in RequestDTOs : Accept("create_one", <<dto>>, <<>>)
    \/ \E dto \in RequestDTOs : Accept("upsert_one", <<dto>>, <<>>)
    \/ \E dto \in RequestUpdates : Accept("update_one", <<dto>>, <<>>)
    \/ \E i \in 1..2 : Accept("delete_one", <<i>>, <<>>)
    \/ Accept("delete_all", <<>>, <<>>)
    \/ \E ds \in RequestLists :
           Accept("create_many", ds, batch_generator(ds, ncols, override))
    \/ \E ds \in RequestLists :
           Accept("upsert_many", ds, batch_generator(ds, ncols, override))
    \/ \E ds \in RequestUpdateLists :
           Accept("update_many_with_id", ds,
                  BatchesOfGroups(group_dicts_by_keys(ds), ncols, override))

\* a step of request r: its record, the store and the clock change
Step(r, q, tbl, s, t) ==
    /\ reqs' = [reqs EXCEPT ![r] = q]
    /\ table' = tbl
    /\ seq' = s
    /\ now' = t
    /\ UNCHANGED <<ncols, override, schema, db, stores, op, dtos, batch_size, pending,
                   batch_res, nstmts, result, table0, prev, ncalls, ret, stmt,
                   inflight>>

Ends(q, res) == [q EXCEPT !.pc = "done", !.result = res]

\* create_one: await item.save().run(), item = cls(**dto.dict()) built on entry
CreateOneSave(r) ==
    LET q == reqs[r]
        x == ExecInsert(schema, table, seq, <<Instance(q.arg[1], q.t)>>,
                        NoConflictClause)
    IN /\ q.op = "create_one"
       /\ q.pc = "first"
       /\ Step(r, IF x.err = NoError
                  THEN [q EXCEPT !.pc = "second", !.got = x.ids]
                  ELSE Ends(q, ConflictException("create_one", x.err)),
               x.table, x.seq, now)
       /\ UNCHANGED cache

\* upsert_one: await cls._add_on_conflict_params(cls.insert(item)).run(), the
\* statement built on entry; no error of the store is caught
UpsertOneInsert(r) ==
    LET q == reqs[r]
        x == ExecInsert(schema, table, seq, <<Instance(q.arg[1], q.t)>>,
                        _add_on_conflict_params(schema))
    IN /\ q.op = "upsert_one"
       /\ q.pc = "first"
       /\ Step(r, IF x.err = NoError
                  THEN [q EXCEPT !.pc = "second", !.got = x.ids]
                  ELSE Ends(q, Uncaught("upsert_one", x.err)),
               x.table, x.seq, now)
       /\ UNCHANGED cache

\* await item.refresh(); return cls.ReadDTOClass(**item.to_dict())
ItemRefresh(r) ==
    LET q == reqs[r]
    IN /\ q.op \in {"create_one", "upsert_one"}
       /\ q.pc = "second"
       /\ Step(r, IF q.got = <<>>
                  THEN Ends(q, Uncaught(q.op, NotStoredError))
                  ELSE IF q.got[1] \in Ids(table)
                  THEN Ends(q, Returned(q.op, q.got))
                  ELSE Ends(q, Uncaught(q.op, ValueError)),
               table, seq, now)
       /\ UNCHANGED cache

\* the SELECT answered as if the row were there
UpdateOneSelect_NoLookup(r) ==
    LET q == reqs[r]
    IN /\ q.op = "update_one"
       /\ q.pc = "first"
       /\ Step(r, [q EXCEPT !.pc = "selected", !.reply.ids = <<q.arg[1].id>>],
               table, seq, now)
       /\ UNCHANGED cache

\* update_one: item = await cls.objects().where(cls.id == id).first().run():
\* the store executes the SELECT
UpdateOneSelect(r) ==
    LET q == reqs[r]
        i == q.arg[1].id
    IN /\ q.op = "update_one"
       /\ q.pc = "first"
       /\ Step(r, [q EXCEPT !.pc = "selected",
                            !.reply.ids = IF i \in Ids(table) THEN <<i>> ELSE <<>>],
               table, seq, now)
       /\ UNCHANGED cache

\* the handler resumes with item: if item is None: raise
\* NotFoundException.from_id(id, cls).  Otherwise the UPDATE of
\* item.update_self(...) is built: the clock is read for updated_at.
UpdateOneBuild(r) ==
    LET q == reqs[r]
    IN /\ q.op = "update_one"
       /\ q.pc = "selected"
       /\ IF q.reply.ids # <<>>
          THEN Step(r, [q EXCEPT !.pc = "second", !.got = q.reply.ids,
                                 !.reply = NoReply, !.t = now + 1],
                    table, seq, now + 1)
          ELSE Step(r, Ends(q, NotFoundException("update_one", q.arg[1].id, schema)),
                    table, seq, now)
       /\ UNCHANGED cache

\* await item.update_self(dto.dict_without_unset()).run(): update_self takes
\* the values of the row the UPDATE returns (response[0]); for a row that is
\* gone nothing is returned
UpdateOneUpdate(r) ==
    LET q == reqs[r]
        x == ExecUpdate(schema, table, q.got[1], dict_without_unset(q.arg[1]), q.t)
    IN /\ q.op = "update_one"
       /\ q.pc = "second"
       /\ Step(r, IF x.err # NoError THEN Ends(q, Uncaught("update_one", x.err))
                  ELSE IF q.got[1] \notin Ids(table)
                  THEN Ends(q, Uncaught("update_one", IndexError))
                  ELSE Ends(q, Returned("update_one", q.got)),
               x.table, seq, now)
       /\ UNCHANGED cache

\* delete_one: await cls.delete().where(cls.id == id).run(); returns None
DeleteOne(r) ==
    LET q == reqs[r]
    IN /\ q.op = "delete_one"
       /\ q.pc = "first"
       /\ Step(r, Ends(q, ReturnedNone("delete_one")),
               {e \in table : e.id # q.arg[1]}, seq, now)
       /\ UNCHANGED cache

\* delete_all: count = await cls.count().run()
DeleteAllCount(r) ==
    LET q == reqs[r]
    IN /\ q.op = "delete_all"
       /\ q.pc = "first"
       /\ Step(r, [q EXCEPT !.pc = "second", !.count = Cardinality(table)],
               table, seq, now)
       /\ UNCHANGED cache

\* res = await cls.delete(force).run(); return AppDeleteAllResponseDTO(count=count)
DeleteAllDelete(r) ==
    LET q == reqs[r]
    IN /\ q.op = "delete_all"
       /\ q.pc = "second"
       /\ Step(r, Ends(q, Returned("delete_all", <<>>)), {}, seq, now)
       /\ UNCHANGED cache

\* the statement of the next batch of a bulk call, and the conflict clause on it
ManyStatement(q, t) ==
    LET batch == Head(q.pending)
    IN IF q.op = "update_many_with_id"
       THEN [rows |-> [k \in 1..Len(batch) |-> ItemInstance(batch[k], t)],
             clause |-> UpdateConflictClause(batch)]
       ELSE [rows |-> Instances(batch, t),
             clause |-> IF q.op = "upsert_many" THEN _add_on_conflict_params(schema)
                        ELSE NoConflictClause]

\* the store executes the statement of the batch that create_many,
\* upsert_many or update_many_with_id awaits (await q, res = await q.run())
ManyBatch(r) ==
    LET q == reqs[r]
        st == ManyStatement(q, q.t)
        x == ExecInsert(schema, table, seq, st.rows, st.clause)
    IN /\ q.op \in {"create_many", "upsert_many", "update_many_with_id"}
       /\ q.pc = "first"
       /\ q.pending # <<>>
       /\ Step(r, [q EXCEPT !.pc = "resumes",
                            !.reply = [ids |-> x.ids, err |-> x.err]],
               x.table, x.seq, now)
       /\ UNCHANGED cache

\* the loop resumes: a UniqueViolationError is caught by create_many and
\* upsert_many (409) and any other error is not; otherwise
\* batch_res.append(...), and the statement of the next batch is built
\* (instances stamped, clause resolved); after the last batch the ids are
\* returned
ManyResume(r) ==
    LET q == reqs[r]
        got == Append(q.got, q.reply.ids)
        more == q.reply.err = NoError /\ Len(q.pending) > 1
    IN /\ q.op \in {"create_many", "upsert_many", "update_many_with_id"}
       /\ q.pc = "resumes"
       /\ Step(r, IF q.reply.err # NoError
                  THEN IF q.op # "update_many_with_id"
                          /\ q.reply.err.type = "UniqueViolationError"
                       THEN Ends(q, ConflictException(q.op, q.reply.err))
                       ELSE Ends(q, Uncaught(q.op, q.reply.err))
                  ELSE IF ~more
                  THEN Ends([q EXCEPT !.pending = <<>>, !.got = got, !.reply = NoReply],
                            Returned(q.op, Flatten(got)))
                  ELSE [q EXCEPT !.pc = "first", !.pending = Tail(@), !.got = got,
                                 !.reply = NoReply, !.t = now + 1],
               table, seq, IF more THEN now + 1 ELSE now)
       /\ cache' = IF more /\ q.op = "upsert_many"
                   THEN Calls_add_on_conflict_params(cache, schema)
                   ELSE cache

InitConcurrent ==
    /\ schema = ProductSchema
    /\ ncols = Len(_all_column_names(schema))
    /\ override = <<1>>
    /\ db = NoCreateDb
    /\ InitCommon

NextConcurrent ==
    \/ SeedInOrder
    \/ refresh
    \/ Accepted
    \/ \E r \in Requests :
          \/ CreateOneSave(r)
          \/ UpsertOneInsert(r)
          \/ ItemRefresh(r)
          \/ UpdateOneSelect(r)
          \/ UpdateOneBuild(r)
          \/ UpdateOneUpdate(r)
          \/ DeleteOne(r)
          \/ DeleteAllCount(r)
          \/ DeleteAllDelete(r)
          \/ ManyBatch(r)
          \/ ManyResume(r)

SpecConcurrent == InitConcurrent /\ [][NextConcurrent]_vars

----------------------------------------------------------------------------
(* Properties of the planner (SpecBatch) *)

\* C1: for every column count C >= 1 and every override (unset, <= 0 or
\* positive), the batch size B that batch_generator uses satisfies B >= 1 and
\* B * C <= PSQL_QUERY_ALLOWED_MAX_ARGS.
C1_BatchSizeBound ==
    op = "sliced" =>
        /\ batch_size >= 1
        /\ batch_size * ncols <= PSQL_QUERY_ALLOWED_MAX_ARGS

\* floor(PROTOCOL_MAX_PARAMS / C) and floor(m * SAFETY_FACTOR), SAFETY_FACTOR = 75/100
FloorOfCeilingBy(c) == PSQL_QUERY_ALLOWED_MAX_ARGS \div c
IsDefaultSize(k, c) == k = (FloorOfCeilingBy(c) * 75) \div 100
\* min(v, floor(PROTOCOL_MAX_PARAMS / C))
IsCappedOverride(k, v, c) ==
    /\ k <= v
    /\ k <= FloorOfCeilingBy(c)
    /\ (k = v \/ k = FloorOfCeilingBy(c))

\* C2 as stated: _batch_size() is floor(floor(32767 / C) * 0.75) when no
\* override is given and min(override, floor(32767 / C)) whenever an override
\* is given.
C2_Original ==
    op = "sized" =>
        IF override = NoOverride
        THEN IsDefaultSize(ret, ncols)
        ELSE IsCappedOverride(ret, override[1], ncols)

\* C2 amended: _batch_size() is floor(floor(32767 / C) * 0.75) when no override
\* is given or the override is <= 0, and min(override, floor(32767 / C)) when
\* the override is positive.
C2_BatchSizeFormula ==
    op = "sized" =>
        IF override = NoOverride \/ override[1] <= 0
        THEN IsDefaultSize(ret, ncols)
        ELSE IsCappedOverride(ret, override[1], ncols)

\* an override of 0 on a 7-column entity yields the default 3510, not min(0, 4681)
C2_Witness ==
    /\ op = "sized"
    /\ ncols = 7
    /\ override = <<0>>
    /\ ret = 3510

----------------------------------------------------------------------------
(* Properties of create_many (SpecCreate) *)

TitlesOf(tbl) == {r.title : r \in tbl}
RowWithId(tbl, i) == CHOOSE r \in tbl : r.id = i

\* row r holds the values of create DTO d
Holds(r, d) ==
    /\ r.title = d.title
    /\ r.description = d.description
    /\ r.price = d.price
    /\ r.is_active = d.is_active

Finished(o) == op = "idle" /\ result.op = o
Raised409(o) == Finished(o) /\ result.status = "409"
ReturnedOk(o) == Finished(o) /\ result.status = "ok"

\* number of DTOs in the batches not yet (successfully) executed
RECURSIVE TotalLen(_)
TotalLen(bs) == IF bs = <<>> THEN 0 ELSE Len(Head(bs)) + TotalLen(Tail(bs))
Committed == Len(dtos) - TotalLen(pending)

\* no DTO of the list repeats a title of the list or of the stored rows
NoCollision ==
    /\ \A i, j \in 1..Len(dtos) : i # j => dtos[i].title # dtos[j].title
    /\ \A i \in 1..Len(dtos) : dtos[i].title \notin TitlesOf(table0)

\* C3: a create_many call on a list that causes no uniqueness violation
\* returns, with exactly one id per submitted DTO, and the i-th id is the id of
\* the stored row that holds the i-th DTO's values, whatever the batch size.
C3_CreateManyOrder ==
    /\ (Finished("create_many") /\ NoCollision) => result.status = "ok"
    /\ ReturnedOk("create_many") =>
          /\ Len(result.ids) = Len(dtos)
          /\ \A i \in 1..Len(dtos) :
                \E r \in table : r.id = result.ids[i] /\ Holds(r, dtos[i])

\* three DTOs, one batch each, into a table that already has a row
C3_Witness ==
    /\ ReturnedOk("create_many")
    /\ batch_size = 1
    /\ Len(dtos) = 3
    /\ nstmts = 3
    /\ table0 # {}
    /\ Cardinality(table) = Cardinality(table0) + 3

\* row j of batch b collides with a stored title or with an earlier row of b
Collides(b, j) ==
    \/ b[j].title \in TitlesOf(table)
    \/ \E h \in 1..(j - 1) : b[h].title = b[j].title
FirstCollision(b) ==
    CHOOSE k \in 1..Len(b) : Collides(b, k) /\ \A j \in 1..(k - 1) : ~Collides(b, j)
NextBatchCollides ==
    /\ op = "create_many"
    /\ pending # <<>>
    /\ inflight > 0
    /\ \E k \in 1..Len(Head(pending)) : Collides(Head(pending), k)

\* C4: when the store reports a uniqueness violation in batch K, create_many
\* raises one ConflictException (409) whose detail is the store's message and
\* returns no id, and it issues no statement for the batches after K.
C4_ConflictAborts ==
    [][ /\ NextBatchCollides =>
            /\ Raised409("create_many")'
            /\ result'.ids = <<>>
            /\ result'.detail =
                  <<"duplicate key value violates unique constraint",
                    "product_title_key",
                    Head(pending)[FirstCollision(Head(pending))].title>>
            /\ pending' = pending
            /\ nstmts' = Len(batch_res) + 1
        /\ Raised409("create_many") => nstmts' = nstmts /\ table' = table
      ]_vars

\* the second of three single-DTO batches collides: the third is never issued
C4_Witness ==
    /\ Raised409("create_many")
    /\ batch_size = 1
    /\ Len(dtos) = 3
    /\ Len(batch_res) = 1
    /\ Len(pending) = 2
    /\ nstmts = 2

\* C5: after create_many fails in batch K, the rows the call added are exactly
\* the rows of batches 1..K-1: earlier batches stay committed, and no row of
\* batch K (colliding or not) or of a later batch is stored.
C5_PartialCommit ==
    Raised409("create_many") =>
        /\ table0 \subseteq table
        /\ Cardinality(table \ table0) = Committed
        /\ \A i \in 1..Committed : \E r \in table \ table0 : Holds(r, dtos[i])
        /\ \A r \in table \ table0 : \E i \in 1..Committed : Holds(r, dtos[i])

\* batches of two: the first is committed, the second holds a new title
\* followed by a colliding one, and neither row of it is stored
C5_Witness ==
    /\ Raised409("create_many")
    /\ batch_size = 2
    /\ Len(dtos) = 4
    /\ Committed = 2
    /\ dtos[3].title \notin TitlesOf(table0) \cup {dtos[1].title, dtos[2].title}
    /\ dtos[3].title \notin TitlesOf(table)
    /\ Cardinality(table) = Cardinality(table0) + 2

\* the case of C6: create_many([existingTitle, newTitle]) split into two batches
C6_Case ==
    /\ Finished("create_many")
    /\ Len(dtos) = 2
    /\ batch_size = 1
    /\ dtos[1].title \in TitlesOf(table0)
    /\ dtos[2].title \notin TitlesOf(table0)

\* C6 as stated: the batch of newTitle is processed first and committed before
\* the colliding batch fails, so the newTitle row is stored although the call
\* raises a Conflict error.
C6_Original ==
    C6_Case =>
        /\ result.status = "409"
        /\ \E r \in table : Holds(r, dtos[2])

\* C6 amended: batches run in submission order, so the batch of existingTitle
\* is processed first and fails; the call raises a Conflict error, no statement
\* is issued for the batch of newTitle and the newTitle row is not stored.
C6_CollidingBatchFirst ==
    C6_Case =>
        /\ result.status = "409"
        /\ nstmts = 1
        /\ table = table0
        /\ dtos[2].title \notin TitlesOf(table)

C6_Witness ==
    /\ C6_Case
    /\ result.status = "409"
    /\ table0 # {}
    /\ Len(pending) = 2

----------------------------------------------------------------------------
(* Properties of upsert_many (SpecUpsert) *)

RowWithTitle(tbl, t) == CHOOSE r \in tbl : r.title = t
DistinctTitles(ds) ==
    \A i, j \in 1..Len(ds) : i # j => ds[i].title # ds[j].title

\* the case of C7: upsert_many([d1]) returned, then upsert_many([d2]) with the
\* title of d1 returned
C7_Case ==
    /\ ReturnedOk("upsert_many")
    /\ prev.result.op = "upsert_many"
    /\ prev.result.status = "ok"
    /\ Len(prev.dtos) = 1
    /\ Len(dtos) = 1
    /\ dtos[1].title = prev.dtos[1].title

\* C7 as stated: for an entity with exactly one unique non-system column,
\* upsert_many with a DTO and then upsert_many with a DTO of the same
\* unique-column value but different other values leaves exactly one stored
\* row for that key, holding the second DTO's values, and both calls return
\* the same surrogate id.
C7_Original ==
    C7_Case =>
        /\ Cardinality({r \in table : r.title = dtos[1].title}) = 1
        /\ Holds(RowWithTitle(table, dtos[1].title), dtos[1])
        /\ Len(result.ids) = 1
        /\ result.ids = prev.result.ids
        /\ RowWithTitle(table, dtos[1].title).id = result.ids[1]

\* C7 amended: the one stored row of that key holds the second DTO's values in
\* the columns that are neither unique nor system columns (description and
\* price); its is_active is as it was stored before the second call, whatever
\* the second DTO says; both calls return the same surrogate id.
C7_UpsertTwice ==
    C7_Case =>
        /\ Cardinality({r \in table : r.title = dtos[1].title}) = 1
        /\ RowWithTitle(table, dtos[1].title).description = dtos[1].description
        /\ RowWithTitle(table, dtos[1].title).price = dtos[1].price
        /\ RowWithTitle(table, dtos[1].title).is_active
              = RowWithTitle(table0, dtos[1].title).is_active
        /\ Len(result.ids) = 1
        /\ result.ids = prev.result.ids
        /\ RowWithTitle(table, dtos[1].title).id = result.ids[1]

\* the second DTO differs from the first in description, price and is_active,
\* and the second call added no row
C7_Witness ==
    /\ C7_Case
    /\ dtos[1].description # prev.dtos[1].description
    /\ dtos[1].price # prev.dtos[1].price
    /\ dtos[1].is_active # prev.dtos[1].is_active
    /\ RowWithTitle(table, dtos[1].title).is_active # dtos[1].is_active
    /\ Cardinality(table) = Cardinality(table0)
    /\ nstmts = 1

\* C8 as stated: upsert_many on a list of DTOs with pairwise different unique
\* keys, some already stored and some new, updates the stored rows and inserts
\* the new ones, and returns one id per DTO in submission order: the i-th id
\* identifies the row now holding the i-th DTO's values.
C8_Original ==
    (Finished("upsert_many") /\ DistinctTitles(dtos)) =>
        /\ result.status = "ok"
        /\ Len(result.ids) = Len(dtos)
        /\ \A i \in 1..Len(dtos) :
              \E r \in table :
                 /\ r.id = result.ids[i]
                 /\ Holds(r, dtos[i])
                 /\ IF dtos[i].title \in TitlesOf(table0)
                    THEN r.id = RowWithTitle(table0, dtos[i].title).id
                    ELSE r.id \notin Ids(table0)

\* C8 amended: the i-th id identifies the row of the i-th DTO's key.  A new
\* row holds the DTO's values; a stored row keeps its id and its is_active and
\* holds the DTO's description and price.  Every row of another key is left
\* alone.
C8_UpsertMix ==
    (Finished("upsert_many") /\ DistinctTitles(dtos)) =>
        /\ result.status = "ok"
        /\ Len(result.ids) = Len(dtos)
        /\ \A i \in 1..Len(dtos) :
              \E r \in table :
                 /\ r.id = result.ids[i]
                 /\ r.title = dtos[i].title
                 /\ r.description = dtos[i].description
                 /\ r.price = dtos[i].price
                 /\ IF dtos[i].title \in TitlesOf(table0)
                    THEN /\ r.id = RowWithTitle(table0, dtos[i].title).id
                         /\ r.is_active = RowWithTitle(table0, dtos[i].title).is_active
                    ELSE /\ r.id \notin Ids(table0)
                         /\ r.is_active = dtos[i].is_active
        /\ Cardinality(table) =
              Cardinality(table0)
              + Cardinality({i \in 1..Len(dtos) : dtos[i].title \notin TitlesOf(table0)})
        /\ \A r \in table0 :
              (\A i \in 1..Len(dtos) : dtos[i].title # r.title) => r \in table

\* an update of a stored row, whose is_active the DTO contradicts, and an
\* insert of a new one, one batch each
C8_Witness ==
    /\ ReturnedOk("upsert_many")
    /\ Len(dtos) = 2
    /\ nstmts = 2
    /\ dtos[1].title \in TitlesOf(table0)
    /\ RowWithTitle(table0, dtos[1].title).description # dtos[1].description
    /\ RowWithTitle(table0, dtos[1].title).is_active # dtos[1].is_active
    /\ dtos[2].title \notin TitlesOf(table0)
    /\ result.ids[1] = RowWithTitle(table0, dtos[1].title).id
    /\ result.ids[2] \notin Ids(table0)

----------------------------------------------------------------------------
(* Properties of update_many_with_id (SpecUpdate) *)

DistinctIds(ds) == \A i, j \in 1..Len(ds) : i # j => ds[i].id # ds[j].id
InUpdateMany == op = "update_many_with_id" \/ Finished("update_many_with_id")

\* C9: update_many_with_id never overwrites a column whose field is absent or
\* null in the DTO.  For DTOs with pairwise different ids, at every point of
\* the call the row of each DTO whose id exists keeps its stored value in
\* every column the DTO leaves absent (and its created_at); once the call has
\* returned, each column the DTO gives holds the DTO's value -- also when DTOs
\* with different sets of present fields are mixed in one call.
C9_PartialUpdate ==
    (InUpdateMany /\ DistinctIds(dtos)) =>
        \A i \in 1..Len(dtos) :
            dtos[i].id \in Ids(table0) =>
                /\ dtos[i].id \in Ids(table)
                /\ LET r0 == RowWithId(table0, dtos[i].id)
                       r == RowWithId(table, dtos[i].id)
                   IN /\ \A f \in UpdateFields :
                            dtos[i][f] = Absent => r[f] = r0[f]
                      /\ r.created_at = r0.created_at
                      /\ ReturnedOk("update_many_with_id") =>
                            \A f \in UpdateFields :
                               dtos[i][f] # Absent => r[f] = dtos[i][f][1]

\* two DTOs with different present fields, both rows changed by the call
C9_Witness ==
    /\ ReturnedOk("update_many_with_id")
    /\ Len(dtos) = 2
    /\ DistinctIds(dtos)
    /\ KeysWithoutUnset(dtos[1]) # KeysWithoutUnset(dtos[2])
    /\ \A i \in 1..2 :
          /\ dtos[i].id \in Ids(table0)
          /\ RowWithId(table, dtos[i].id) # RowWithId(table0, dtos[i].id)
    /\ dtos[1].description = Absent
    /\ dtos[1].price # Absent
    /\ RowWithId(table, dtos[1].id).description = "d1"

\* C10: for an input whose ids all exist (and are pairwise different),
\* update_many_with_id returns the ids in submission order: the i-th returned
\* id is the id of the i-th submitted DTO, whatever fields each DTO carries.
C10_SubmissionOrder ==
    ( /\ ReturnedOk("update_many_with_id")
      /\ DistinctIds(dtos)
      /\ \A i \in 1..Len(dtos) : dtos[i].id \in Ids(table0) )
    => result.ids = [i \in 1..Len(dtos) |-> dtos[i].id]

\* C11: update_many_with_id called with a DTO whose id matches no stored row
\* does not raise an error and returns an id list that does not contain that
\* id (an empty list when it is the only DTO).
C11_DroppedId ==
    Finished("update_many_with_id") =>
        \A i \in 1..Len(dtos) :
            dtos[i].id \notin Ids(table0) =>
                /\ result.status = "ok"
                /\ \A k \in 1..Len(result.ids) : result.ids[k] # dtos[i].id

\* C12: PATCH /many errors out if any submitted item does not exist: when at
\* least one DTO's id matches no stored row, update_many_with_id ends with an
\* error instead of returning a result.
C12_MissingIdFails ==
    ( /\ Finished("update_many_with_id")
      /\ \E i \in 1..Len(dtos) : dtos[i].id \notin Ids(table0) )
    => result.status # "ok"

----------------------------------------------------------------------------
(* Properties of the conflict clauses (SpecConflict) *)

SystemColumns == {"id", "created_at", "updated_at", "is_active"}
InUpsertMany == op = "upsert_many" \/ Finished("upsert_many")

\* C13 as stated: id, created_at, updated_at and is_active are never the
\* conflict target and never among the columns overwritten on conflict, in any
\* statement built by upsert_many or update_many_with_id, and _unique_columns()
\* and _on_conflict_update_columns() never contain a system column.
C13_Original ==
    /\ stmt.clause.target \notin SystemColumns
    /\ stmt.clause.values \cap SystemColumns = {}
    /\ Range(_unique_columns(schema)) \cap SystemColumns = {}
    /\ Range(_on_conflict_update_columns(schema)) \cap SystemColumns = {}

\* C13 amended: _unique_columns() and _on_conflict_update_columns() never
\* contain a system column, and no statement built by upsert_many has a system
\* column as conflict target or among the columns overwritten on conflict.  A
\* statement built by update_many_with_id has id as its conflict target and
\* overwrites updated_at, and is_active when the DTO gives it; it never
\* overwrites id or created_at.
C13_SystemColumns ==
    /\ Range(_unique_columns(schema)) \cap SystemColumns = {}
    /\ Range(_on_conflict_update_columns(schema)) \cap SystemColumns = {}
    /\ (InUpsertMany /\ nstmts > 0) =>
          /\ stmt.clause.target \notin SystemColumns
          /\ stmt.clause.values \cap SystemColumns = {}
    /\ (InUpdateMany /\ nstmts > 0) =>
          /\ stmt.clause.target = "id"
          /\ "updated_at" \in stmt.clause.values
          /\ stmt.clause.values \cap {"id", "created_at"} = {}
          /\ \A i \in 1..Len(dtos) :
                (\E k \in 1..Len(stmt.rows) : stmt.rows[k].id = dtos[i].id) =>
                    ("is_active" \in stmt.clause.values <=> dtos[i].is_active # Absent)

\* an update_many_with_id statement that overwrites is_active on conflict with id
C13_Witness ==
    /\ op = "update_many_with_id"
    /\ inflight = 1
    /\ schema = TwoKeySchema
    /\ stmt.clause.target = "id"
    /\ stmt.clause.values = {"is_active", "description", "updated_at"}

\* columns of the entity flagged unique / not flagged unique, system columns left out
UniqueBusinessColumns(sc) == {c \in Range(sc.columns) : c \in sc.unique} \ SystemColumns
OtherBusinessColumns(sc) == {c \in Range(sc.columns) : c \notin sc.unique} \ SystemColumns

\* C14: for an entity with exactly one unique non-system column, the conflict
\* clause added to an upsert statement has that column as target, action
\* DO UPDATE, and as update columns exactly the entity's columns that are
\* neither unique nor system columns.
C14_SingleUniqueColumn ==
    ( /\ InUpsertMany
      /\ nstmts > 0
      /\ Cardinality(UniqueBusinessColumns(schema)) = 1 )
    => /\ stmt.clause.action = "DO UPDATE"
       /\ UniqueBusinessColumns(schema) = {stmt.clause.target}
       /\ stmt.clause.values = OtherBusinessColumns(schema)

\* an upsert statement in flight for an entity with one unique column and a
\* declared constraint: the column is the target, not the constraint
C14_Witness ==
    /\ op = "upsert_many"
    /\ inflight = 1
    /\ schema = KeyAndCompositeSchema
    /\ stmt.clause.target = "title"
    /\ stmt.clause.values = {"description", "price"}

\* C15: for an entity that does not have exactly one unique column but
\* declares exactly one multi-column uniqueness constraint, the conflict clause
\* has that constraint as target, action DO UPDATE, and as update columns
\* exactly the non-system columns that are not part of the constraint.
C15_SingleConstraint ==
    ( /\ InUpsertMany
      /\ nstmts > 0
      /\ Cardinality(UniqueBusinessColumns(schema)) # 1
      /\ Len(schema.constraints) = 1 )
    => /\ stmt.clause.action = "DO UPDATE"
       /\ stmt.clause.target = schema.constraints[1].name
       /\ stmt.clause.values =
             (Range(schema.columns) \ SystemColumns)
             \ Range(schema.constraints[1].unique_columns)

\* neither exactly one unique column nor exactly one constraint
Ambiguous(sc) ==
    /\ Cardinality(UniqueBusinessColumns(sc)) # 1
    /\ Len(sc.constraints) # 1

\* row r and DTO d agree on a unique column or on all columns of a constraint
Clashes(sc, r, d) ==
    \/ \E c \in UniqueBusinessColumns(sc) : r[c] = d[c]
    \/ \E k \in DOMAIN sc.constraints :
          \A c \in Range(sc.constraints[k].unique_columns) : r[c] = d[c]

\* C16: for an entity with zero or several candidate conflict targets (not
\* exactly one unique column and not exactly one constraint), upsert
\* (upsert_one and upsert_many) uses action DO NOTHING: a submitted row that
\* conflicts with a stored row is silently skipped, the stored row is left
\* unchanged, no error is raised, and non-conflicting rows (those that
\* conflict with no stored row and no earlier row of the call) are inserted.
C16_DoNothing ==
    ((Finished("upsert_one") \/ Finished("upsert_many")) /\ Ambiguous(schema)) =>
        /\ result.status = "ok"
        /\ nstmts > 0 => stmt.clause.action = "DO NOTHING"
        /\ table0 \subseteq table
        /\ \A r \in table \ table0 : \E i \in 1..Len(dtos) : Holds(r, dtos[i])
        /\ \A i \in 1..Len(dtos) :
              IF \E r \in table0 : Clashes(schema, r, dtos[i])
              THEN ~ \E r \in table \ table0 : Holds(r, dtos[i])
              ELSE (\A j \in 1..(i - 1) : ~Clashes(schema, dtos[j], dtos[i]))
                       => \E r \in table \ table0 : Holds(r, dtos[i])

----------------------------------------------------------------------------
(* Properties of the error handling of the bulk operations *)

BulkOps == {"create_many", "upsert_many", "update_many_with_id"}

\* the call ended with an error whose text is a uniqueness violation of the store
EndedOnUniqueViolation(o) ==
    /\ Finished(o)
    /\ result.status # "ok"
    /\ Len(result.detail) = 3
    /\ result.detail[1] = "duplicate key value violates unique constraint"

\* C17: every uniqueness violation the store reports during create_many,
\* upsert_many or update_many_with_id is caught at the model boundary and
\* surfaced as a ConflictException (409) carrying the store's text; no raw
\* store error reaches the caller.
C17_ConflictSurfaced ==
    \A o \in BulkOps : EndedOnUniqueViolation(o) => result.status = "409"

\* row r of a statement carries item d of a batch: the DTO's values for
\* create_many and upsert_many, the DTO's id for update_many_with_id
Carries(r, d) ==
    IF op = "update_many_with_id" THEN r.id = d.id
    ELSE r.id = DEFAULT /\ Holds(r, d)

\* C18: within one call of create_many, upsert_many or update_many_with_id the
\* batches are executed strictly one after the other, in order: at most one
\* statement of the call is in flight at any time, and a statement is issued
\* only when the results of all earlier statements have been received; it is
\* the statement of the first batch not yet executed, which for create_many and
\* upsert_many holds the DTOs that follow the executed ones in submission order.
C18_Sequential ==
    [][ /\ inflight' <= 1
        /\ (op \in BulkOps /\ nstmts' = nstmts + 1) =>
              /\ inflight = 0
              /\ Len(batch_res) = nstmts
              /\ Len(stmt'.rows) = Len(Head(pending))
              /\ \A k \in 1..Len(stmt'.rows) :
                    /\ Carries(stmt'.rows[k], Head(pending)[k])
                    /\ op # "update_many_with_id" =>
                          Holds(stmt'.rows[k], dtos[Committed + k])
      ]_vars

\* the statement of the second batch in flight, the result of the first received
C18_Witness ==
    /\ op = "upsert_many"
    /\ batch_size = 1
    /\ Len(dtos) = 2
    /\ inflight = 1
    /\ nstmts = 2
    /\ Len(batch_res) = 1
    /\ Holds(stmt.rows[1], dtos[2])

----------------------------------------------------------------------------
(* Properties of the values update_many_with_id stores (SpecUpdate) *)

\* DTO i gives the title O'Brien's Widget for a stored row, in a call that
\* returned and whose DTOs name pairwise different ids
C19_Case(i) ==
    /\ ReturnedOk("update_many_with_id")
    /\ DistinctIds(dtos)
    /\ dtos[i].id \in Ids(table0)
    /\ dtos[i].title = <<"O'Brien's Widget">>

\* the row of DTO i holds the submitted title, keeps its id, its created_at
\* and every column the DTO leaves absent, and every stored row that no DTO
\* of the call names is unchanged
C19_StoredUnchanged(i) ==
    LET r0 == RowWithId(table0, dtos[i].id)
        r == RowWithId(table, dtos[i].id)
    IN /\ Cardinality({x \in table : x.id = dtos[i].id}) = 1
       /\ r.title = "O'Brien's Widget"
       /\ r.created_at = r0.created_at
       /\ \A f \in UpdateFields \ {"title"} : dtos[i][f] = Absent => r[f] = r0[f]
       /\ \A o \in table0 :
             (\A j \in 1..Len(dtos) : dtos[j].id # o.id) => o \in table

\* C19 as stated: a string with embedded apostrophes (O'Brien's Widget)
\* submitted as a field of update_many_with_id is stored and read back
\* unchanged, character for character, and no other row or column is affected.
C19_Original ==
    \A i \in 1..Len(dtos) :
        C19_Case(i) =>
            /\ C19_StoredUnchanged(i)
            /\ RowWithId(table, dtos[i].id).updated_at
                  = RowWithId(table0, dtos[i].id).updated_at

\* C19 amended: the string is stored and read back unchanged, character for
\* character; no other row is affected, and of the row's other columns only
\* updated_at changes, which the statement sets to the time of the call.
C19_ApostropheRoundTrip ==
    \A i \in 1..Len(dtos) :
        C19_Case(i) =>
            /\ C19_StoredUnchanged(i)
            /\ RowWithId(table, dtos[i].id).updated_at
                  > RowWithId(table0, dtos[i].id).updated_at

\* the title of row 2 replaced by O'Brien's Widget while another DTO of the
\* call changes row 1 and row 3 is named by no DTO
C19_Witness ==
    /\ Len(dtos) = 2
    /\ C19_Case(2)
    /\ Cardinality(table0) = 3
    /\ dtos[2].id = 2
    /\ dtos[1].id = 1
    /\ RowWithId(table0, 2).title = "B"
    /\ RowWithId(table, 2).title = "O'Brien's Widget"
    /\ RowWithId(table, 1) # RowWithId(table0, 1)
    /\ RowWithId(table, 3) = RowWithId(table0, 3)

----------------------------------------------------------------------------
(* Properties of search (SpecSearch) *)

\* C20: a search request whose payload sets no search field returns all
\* stored rows of the entity (up to the page limit) with status 200, rather
\* than failing.
C20_SearchNoFields ==
    ( /\ Finished("search")
      /\ \A k \in DOMAIN SearchFields : dtos[1].data[SearchFields[k]] = Absent
      /\ dtos[1].offset = 0 )
    => /\ result.status = "ok"
       /\ Len(result.ids) = Min(Cardinality(table), read_all_limit_default)
       /\ Range(result.ids) \subseteq Ids(table)

----------------------------------------------------------------------------
(* Further properties of the planner (SpecBatch) *)

\* C23: insert_batch_size_override can only reduce the batch size:
\* the batch size used with the override set is less than or equal to the
\* batch size used without an override, and never exceeds max_batch_size().
C23_Original ==
    (op = "sliced" /\ override # NoOverride) =>
        /\ batch_size <= UsedBatchSize(ncols, NoOverride)
        /\ batch_size <= max_batch_size(ncols)

\* C25: batch_generator partitions its input: with B = max(1, _batch_size()),
\* the yielded batches concatenated in order are the input list, every batch
\* is non-empty and has at most B items, every batch but the last has exactly
\* B items, and an empty input yields no batch.
C25_Partition ==
    op = "sliced" =>
        /\ batch_size = Max(1, _batch_size(ncols, override))
        /\ Flatten(pending) = dtos
        /\ \A k \in DOMAIN pending :
              /\ Len(pending[k]) >= 1
              /\ Len(pending[k]) <= batch_size
              /\ k < Len(pending) => Len(pending[k]) = batch_size
        /\ dtos = <<>> => pending = <<>>

\* three items under an override of 2: a full batch and a shorter last one
C25_Witness ==
    /\ op = "sliced"
    /\ override = <<2>>
    /\ dtos = <<1, 2, 3>>
    /\ pending = << <<1, 2>>, <<3>> >>

----------------------------------------------------------------------------
(* Further properties of update_many_with_id (SpecUpdate) *)

\* C26: update_many_with_id never changes the number of stored rows: after any
\* call, with any mix of existing and non-existing ids, the set of stored ids
\* is the same as before the call.
C26_IdsKept ==
    Finished("update_many_with_id") => Ids(table) = Ids(table0)

----------------------------------------------------------------------------
(* Properties of the memoized conflict resolution (SpecResolve) *)

\* times the body of f has run for entity class sc
Runs(f, sc) == CopiesIn(<<f, sc>>, cache.runs)

\* C24: the conflict resolution of an entity type (its unique columns,
\* conflict target, action and update columns) is computed once per entity
\* type and then reused: over any sequence of upsert requests, including
\* requests that alternate between entity types, no part of it is computed a
\* second time for a type that was already resolved.
C24_ComputedOnce ==
    \A sc \in EntityTypes :
        \A f \in {"_add_on_conflict_params", "_unique_columns",
                  "_on_conflict_update_columns"} : Runs(f, sc) <= 1

----------------------------------------------------------------------------
(* Properties of the earlier revision (SpecEarlier) *)

\* C29: in the earlier model revision, building the conflict spec does not
\* modify the entity's schema: no call of add_on_conflict_params changes the
\* declared constraint's unique_columns list (or anything else of the
\* schema), and repeated calls for the same entity return the same target and
\* update columns.
C29_SchemaKept ==
    [][ /\ schema' = schema
        /\ (stmt.rows # <<>> /\ stmt'.clause.action # "NONE"
              /\ stmt.clause.action # "NONE") => stmt'.clause = stmt.clause ]_vars

----------------------------------------------------------------------------
(* Properties of create_db (SpecCreateDb) *)

CreateDbEnded == db.outcome \notin {"none", "running"}

\* C30: create_db ends for every retry_count >= 0: it makes at most
\* retry_count attempts, it returns at the first attempt in which the database
\* is found or created without an exception, and if every attempt raises (or
\* retry_count is 0) it raises DatabaseNotFoundException and nothing else.
C30_CreateDbOutcome ==
    /\ db.attempts <= db.retry_count
    /\ db.outcome = "returned" =>
          /\ db.exists
          /\ db.log[Len(db.log)] \in {"Database found.", "Creating database..."}
    /\ (CreateDbEnded /\ db.outcome # "returned") =>
          /\ db.attempts = db.retry_count
          /\ db.outcome = "DatabaseNotFoundException"

----------------------------------------------------------------------------
(* Properties of the concurrent requests (SpecConcurrent) *)

\* request r takes the step that sends the statement at position pc of op o
Sends(r, o, pc) ==
    /\ reqs[r].op = o
    /\ reqs[r].pc = pc
    /\ reqs'[r] # reqs[r]

\* C21: update_one (and update_one_with_id, which delegates to it) for an id
\* that matches no stored row fails with a 404 NotFound whose detail is
\* "<Humanized entity name> with id='<id>' not found.", and leaves the store
\* unchanged: no row is created and no row is modified.  The SELECT of an id
\* that is not stored finds nothing, and the handler that resumes with
\* nothing ends with the 404; neither step touches the table or the sequence.
C21_NotFound ==
    [][ \A r \in Requests :
          /\ ( /\ Sends(r, "update_one", "first")
               /\ reqs[r].arg[1].id \notin Ids(table) )
             => /\ reqs'[r].pc = "selected"
                /\ reqs'[r].reply.ids = <<>>
                /\ table' = table
                /\ seq' = seq
          /\ ( /\ Sends(r, "update_one", "selected")
               /\ reqs[r].reply.ids = <<>> )
             => /\ reqs'[r].pc = "done"
                /\ reqs'[r].result.status = "404"
                /\ reqs'[r].result.detail =
                       <<"Product with id='" \o ToString(reqs[r].arg[1].id)
                         \o "' not found.">>
                /\ table' = table
                /\ seq' = seq ]_vars

\* one row stored, with id 1: update_one for id 2 ended with the 404
C21_Witness ==
    \E r \in Requests :
        /\ reqs[r].op = "update_one"
        /\ reqs[r].arg[1].id = 2
        /\ reqs[r].result.status = "404"
        /\ reqs[r].result.detail = <<"Product with id='2' not found.">>
        /\ Ids(table) = {1}

\* C22: delete_all leaves the entity's table empty and the count it reports
\* (the X-DELETED-COUNT response header) equals the number of rows that this
\* call actually deleted, also when other requests insert or delete rows
\* concurrently with it.
C22_DeletedCount ==
    [][ \A r \in Requests :
          Sends(r, "delete_all", "second")
          => /\ table' = {}
             /\ reqs'[r].count = Cardinality(table) ]_vars

\* C27: after any sequence of create_one, create_many, upsert_one,
\* upsert_many, update_one and update_many_with_id calls, including calls of
\* concurrent requests interleaved at statement granularity and calls that
\* fail part-way, no two stored rows share the same id or the same value of
\* the unique column.
C27_Uniqueness ==
    \A a \in table : \A b \in table :
        a # b => (a.id # b.id /\ a.title # b.title)

\* create_many [D, A] on an empty table stored D, then the create_one of another
\* request stored A, and the second batch of create_many failed on A
C27_Witness ==
    /\ reqs["r1"].op = "create_many"
    /\ reqs["r1"].result.status = "409"
    /\ reqs["r1"].got = << <<1>> >>
    /\ reqs["r2"].op = "create_one"
    /\ reqs["r2"].result = Returned("create_one", <<2>>)
    /\ {<<x.id, x.title>> : x \in table} = {<<1, "D">>, <<2, "A">>}

\* the DTOs of the statement request r is about to send
NextBatchOf(r) ==
    IF reqs[r].op = "upsert_one" THEN reqs[r].arg ELSE Head(reqs[r].pending)

\* C28: when upsert_one or upsert_many hits an existing row (single unique
\* column entity), it overwrites exactly the non-unique, non-system columns
\* with the DTO's values and leaves id, created_at, updated_at and is_active
\* of that row unchanged, even when the DTO supplies a different is_active.
C28_UpsertFrame ==
    [][ \A r \in Requests :
          ( \/ Sends(r, "upsert_one", "first")
            \/ Sends(r, "upsert_many", "first") )
          => \A e \in table : \A k \in DOMAIN NextBatchOf(r) :
                LET d == NextBatchOf(r)[k]
                IN e.title = d.title
                   => [e EXCEPT !.description = d.description, !.price = d.price]
                          \in table' ]_vars

\* the row of title A, saved active at time 1, was hit by an upsert_one whose
\* DTO says inactive: description and price are the DTO's, the rest is kept
C28_Witness ==
    \E r \in Requests :
        /\ reqs[r].op = "upsert_one"
        /\ reqs[r].result = Returned("upsert_one", <<1>>)
        /\ reqs[r].arg[1].is_active = FALSE
        /\ [id |-> 1, title |-> "A", description |-> "d2", price |-> 2,
            is_active |-> TRUE, created_at |-> 1, updated_at |-> 1] \in table

====
